---- MODULE Spec2Model ----
(***************************************************************************)
(* A model of the read-only SQL gateway (mcp-read-only-sql): the           *)
(* PostgreSQL read-only guard, the four query executors with their         *)
(* streaming size cap, SSH tunnel and teardown, the hard-timeout wrapper,   *)
(* the loading of the configuration and the file_path mode of the tool.    *)
(*                                                                         *)
(* Text is a sequence of one-character strings; positions are 1-based      *)
(* (the Python source is 0-based).                                         *)
(***************************************************************************)
EXTENDS Integers, Sequences, FiniteSets, TLC

VARIABLES
    query,            \* guard: the text handed to the guard, as its pieces
    verdict,          \* guard: what the guard answered for it
    cfg,              \* executor: its kind and the connection it is bound to
    call,             \* executor: the database and server the caller asked for
    pc,               \* executor: where the calling task stands
    target,           \* executor: the endpoint connected to or tunnelled to
    db_name,          \* executor: the database handed to the client or driver
    tunnel,           \* executor: none, starting, up or stopped
    tunnel_impl,      \* executor: paramiko (in-process) or system_ssh
    start_error,      \* executor: why the last tunnel.start() failed
    spawn_env,        \* CLI executor: the environment of each client process started
    proc,             \* CLI executor: the client process
    kills,            \* CLI executor: calls of process.kill()
    conn,             \* native executor: the driver connection
    worker,           \* native executor: the worker thread
    lines,            \* streaming: the lines admitted
    total_bytes,      \* streaming: the bytes counted for them
    truncated,        \* streaming: the cap stopped the stream
    nread,            \* streaming: lines read from the backend
    emitted,          \* streaming: the header and the rows the backend sent
    returned,         \* executor: what the caller got
    coro,             \* hard timeout: the wrapped operation
    timeout_seconds,  \* hard timeout: the deadline
    elapsed,          \* hard timeout: time since the call
    hard_result,      \* hard timeout: what the caller got
    env,              \* configuration: the environment variables
    raw_configs,      \* configuration: the records of the file
    loaded,           \* configuration: what load_connections gave
    connectors,       \* configuration: the connectors built from the registry
    fs,               \* file output: what is at each path
    tool_return,      \* file output: what run_query_read_only gave
    conn_servers,     \* selection: the endpoints of the connector
    ssh_host,         \* selection: the host of the connector's tunnel, if any
    server_arg,       \* selection: the server the caller asked for
    selected,         \* selection: what _select_server gave
    listed,           \* selection: the endpoints list_connections shows
    connect_to,       \* selection: the endpoint the executor targets
    client_cmd,       \* selection: the clickhouse-client command line built for the call
    tunnel_obj,       \* tunnel object: its configuration and its fields
    starter,          \* tunnel object: the thread that runs _start_sync
    tunnel_call,      \* tunnel object: the call made on it, and what it gave
    tunnel_calls,     \* tunnel object: calls made so far
    tasks,            \* concurrent calls: each call's position, backend input and result
    frames,           \* concurrent calls: the locals of each call's frame
    stdout_line,      \* psql output: a line psql wrote, as its pieces
    line_kept,        \* psql output: what the read loop did with the line
    limit_ctx,        \* cap override: enforce_limit in the context of each task
    limit_tokens,     \* cap override: the tokens each task holds, innermost last
    cap_seen,         \* cap override: what each task read as its effective cap
    acct_input,       \* size accounting: the header, the rows and the cap
    acct_result       \* size accounting: what each executor's loop made of them

guardVars == <<query, verdict>>
resVars == <<proc, kills, conn, worker>>
streamVars == <<lines, total_bytes, truncated, nread, emitted>>
execVars == <<cfg, call, pc, target, db_name, tunnel, tunnel_impl, start_error, spawn_env, resVars,
              streamVars, returned>>
timeoutVars == <<coro, timeout_seconds, elapsed, hard_result>>
configVars == <<env, raw_configs, loaded, connectors>>
fileVars == <<fs, tool_return>>
selectVars == <<conn_servers, ssh_host, server_arg, selected, listed, connect_to, client_cmd>>
tunnelObjVars == <<tunnel_obj, starter, tunnel_call, tunnel_calls>>
pairVars == <<tasks, frames>>
noiseVars == <<stdout_line, line_kept>>
overrideVars == <<limit_ctx, limit_tokens, cap_seen>>
acctVars == <<acct_input, acct_result>>
unitVars == <<selectVars, tunnelObjVars, pairVars, noiseVars, overrideVars, acctVars>>
vars == <<guardVars, execVars, timeoutVars, configVars, fileVars, unitVars>>

(***************************************************************************)
(* Bounds of the model.                                                    *)
(***************************************************************************)
\* longest guard input, in pieces of GuardPieces
MaxPieces == 4
\* most lines read from a backend in one call
MaxLines == 3
\* longest operation and latest deadline of the hard-timeout wrapper
MaxSeconds == 3
\* most records in a configuration file
MaxRecords == 3
\* most endpoints of a connector
MaxServers == 2
\* most calls made on one tunnel object
MaxTunnelCalls == 3

(***************************************************************************)
(* Characters.                                                             *)
(***************************************************************************)
\* what str.strip() / str.lstrip() remove and what \s matches
Whitespace == {" ", "\t", "\n", "\r"}

LowerLetters == <<"a","b","c","d","e","f","g","h","i","j","k","l","m",
                  "n","o","p","q","r","s","t","u","v","w","x","y","z">>
UpperLetters == <<"A","B","C","D","E","F","G","H","I","J","K","L","M",
                  "N","O","P","Q","R","S","T","U","V","W","X","Y","Z">>
Digits == {"0","1","2","3","4","5","6","7","8","9"}
Letters == {LowerLetters[k] : k \in 1..26} \cup {UpperLetters[k] : k \in 1..26}

\* str.upper() on the characters of the model
Upper(c) ==
    IF \E k \in 1..26 : LowerLetters[k] = c
    THEN UpperLetters[CHOOSE k \in 1..26 : LowerLetters[k] = c]
    ELSE c

UpperText(s) == [k \in 1..Len(s) |-> Upper(s[k])]

\* str.isalnum() or '_'
IsTagChar(c) == c \in Letters \cup Digits \cup {"_"}

RECURSIVE LStrip(_)
LStrip(s) ==
    IF s # <<>> /\ Head(s) \in Whitespace THEN LStrip(Tail(s)) ELSE s

RECURSIVE RStrip(_)
RStrip(s) ==
    IF s # <<>> /\ s[Len(s)] \in Whitespace
    THEN RStrip(SubSeq(s, 1, Len(s) - 1)) ELSE s

Strip(s) == RStrip(LStrip(s))

\* query.startswith(prefix, i), i 1-based
StartsWithAt(s, prefix, i) ==
    /\ i + Len(prefix) - 1 <= Len(s)
    /\ \A k \in 1..Len(prefix) : s[i + k - 1] = prefix[k]

(***************************************************************************)
(* utils/sql_guard.py: the scanner.                                        *)
(***************************************************************************)
\* the local variables of _find_semicolons_outside_literals before the loop
ScanStart ==
    [in_single |-> FALSE, in_double |-> FALSE, in_line_comment |-> FALSE,
     in_block_comment |-> 0, dollar_tag |-> <<>>, semicolons |-> <<>>]

\* the inner while of the '$' branch: the first position from j on that holds
\* no tag character (Len + 1 when there is none)
RECURSIVE tag_end_from(_, _)
tag_end_from(q, j) ==
    IF j <= Len(q) /\ IsTagChar(q[j]) THEN tag_end_from(q, j + 1) ELSE j

\* one run of the while loop from position i in state st
RECURSIVE scan_loop(_, _, _)
scan_loop(q, i, st) ==
    IF i > Len(q) THEN st.semicolons
    ELSE
    LET ch == q[i]
        nxt == IF i + 1 <= Len(q) THEN q[i + 1] ELSE ""
        tag_end == tag_end_from(q, i + 1)
    IN
    IF st.in_line_comment THEN
        scan_loop(q, i + 1,
                  IF ch \in {"\r", "\n"}
                  THEN [st EXCEPT !.in_line_comment = FALSE] ELSE st)
    ELSE IF st.in_block_comment > 0 THEN
        IF ch = "*" /\ nxt = "/" THEN
            scan_loop(q, i + 2, [st EXCEPT !.in_block_comment = @ - 1])
        ELSE IF ch = "/" /\ nxt = "*" THEN
            scan_loop(q, i + 2, [st EXCEPT !.in_block_comment = @ + 1])
        ELSE scan_loop(q, i + 1, st)
    ELSE IF st.dollar_tag # <<>> THEN
        IF StartsWithAt(q, st.dollar_tag, i)
        THEN scan_loop(q, i + Len(st.dollar_tag), [st EXCEPT !.dollar_tag = <<>>])
        ELSE scan_loop(q, i + 1, st)
    ELSE IF st.in_single THEN
        IF ch = "'" THEN
            IF nxt = "'" THEN scan_loop(q, i + 2, st)
            ELSE scan_loop(q, i + 1, [st EXCEPT !.in_single = FALSE])
        ELSE scan_loop(q, i + 1, st)
    ELSE IF st.in_double THEN
        IF ch = "\"" THEN
            IF nxt = "\"" THEN scan_loop(q, i + 2, st)
            ELSE scan_loop(q, i + 1, [st EXCEPT !.in_double = FALSE])
        ELSE scan_loop(q, i + 1, st)
    ELSE IF ch = "-" /\ nxt = "-" THEN
        scan_loop(q, i + 2, [st EXCEPT !.in_line_comment = TRUE])
    ELSE IF ch = "/" /\ nxt = "*" THEN
        scan_loop(q, i + 2, [st EXCEPT !.in_block_comment = 1])
    ELSE IF ch = "'" THEN
        scan_loop(q, i + 1, [st EXCEPT !.in_single = TRUE])
    ELSE IF ch = "\"" THEN
        scan_loop(q, i + 1, [st EXCEPT !.in_double = TRUE])
    ELSE IF ch = "$" /\ tag_end <= Len(q) /\ q[tag_end] = "$" THEN
        scan_loop(q, tag_end + 1, [st EXCEPT !.dollar_tag = SubSeq(q, i, tag_end)])
    ELSE IF ch = ";" THEN
        scan_loop(q, i + 1, [st EXCEPT !.semicolons = Append(@, i)])
    ELSE scan_loop(q, i + 1, st)

find_semicolons_outside_literals(q) == scan_loop(q, 1, ScanStart)

\* _remove_comments: in_block is the nesting depth, 0 outside a block comment
RECURSIVE remove_comments_loop(_, _, _, _)
remove_comments_loop(sql, i, in_block, result) ==
    IF i > Len(sql) THEN result
    ELSE
    LET ch == sql[i]
        nxt == IF i + 1 <= Len(sql) THEN sql[i + 1] ELSE ""
    IN
    IF in_block > 0 THEN
        IF ch = "*" /\ nxt = "/" THEN remove_comments_loop(sql, i + 2, in_block - 1, result)
        ELSE IF ch = "/" /\ nxt = "*" THEN remove_comments_loop(sql, i + 2, in_block + 1, result)
        ELSE remove_comments_loop(sql, i + 1, in_block, result)
    ELSE IF ch = "-" /\ nxt = "-" THEN
        \* skip to the line break, which is kept
        LET RECURSIVE eol(_)
            eol(j) == IF j <= Len(sql) /\ sql[j] \notin {"\r", "\n"} THEN eol(j + 1) ELSE j
        IN remove_comments_loop(sql, eol(i + 2), 0, result)
    ELSE IF ch = "/" /\ nxt = "*" THEN
        remove_comments_loop(sql, i + 2, 1, result)
    ELSE remove_comments_loop(sql, i + 1, 0, Append(result, ch))

remove_comments(sql) == remove_comments_loop(sql, 1, 0, <<>>)

only_trailing_semicolon(q, index) ==
    Strip(remove_comments(SubSeq(q, index + 1, Len(q)))) = <<>>

\* _ensure_single_statement without the look at what follows the semicolon
ensure_single_statement_any_tail(q) == Len(find_semicolons_outside_literals(q)) <= 1

\* _ensure_single_statement: TRUE when it returns, FALSE when it raises
ensure_single_statement(q) ==
    LET semicolons == find_semicolons_outside_literals(q) IN
    IF semicolons = <<>> THEN TRUE
    ELSE IF Len(semicolons) > 1 THEN FALSE
    ELSE only_trailing_semicolon(q, semicolons[1])

(***************************************************************************)
(* utils/sql_guard.py: the transaction-control prefix.                     *)
(***************************************************************************)
W_COMMIT == <<"C","O","M","M","I","T">>
W_ROLLBACK == <<"R","O","L","L","B","A","C","K">>
W_ABORT == <<"A","B","O","R","T">>
W_END == <<"E","N","D">>
W_BEGIN == <<"B","E","G","I","N">>
W_START == <<"S","T","A","R","T">>
W_TRANSACTION == <<"T","R","A","N","S","A","C","T","I","O","N">>
W_SET == <<"S","E","T">>
W_SESSION == <<"S","E","S","S","I","O","N">>
W_CHARACTERISTICS == <<"C","H","A","R","A","C","T","E","R","I","S","T","I","C","S">>
W_SAVEPOINT == <<"S","A","V","E","P","O","I","N","T">>
W_RELEASE == <<"R","E","L","E","A","S","E">>
W_TO == <<"T","O">>
W_PREPARE == <<"P","R","E","P","A","R","E">>
W_PREPARED == <<"P","R","E","P","A","R","E","D">>

\* the alternatives of _TRANSACTION_PREFIX, in the order of the pattern; the
\* keywords of one alternative are separated by \s+
TRANSACTION_PREFIX ==
    << <<W_COMMIT>>, <<W_ROLLBACK>>, <<W_ABORT>>, <<W_END>>, <<W_BEGIN>>,
       <<W_START, W_TRANSACTION>>, <<W_SET, W_TRANSACTION>>,
       <<W_SET, W_SESSION, W_CHARACTERISTICS>>, <<W_SAVEPOINT>>,
       <<W_RELEASE, W_SAVEPOINT>>, <<W_ROLLBACK, W_TO, W_SAVEPOINT>>,
       <<W_PREPARE, W_TRANSACTION>>, <<W_COMMIT, W_PREPARED>>,
       <<W_ROLLBACK, W_PREPARED>> >>

\* \s+ from position i: the position after the run of whitespace
RECURSIVE skip_ws(_, _)
skip_ws(s, i) == IF i <= Len(s) /\ s[i] \in Whitespace THEN skip_ws(s, i + 1) ELSE i

\* a keyword at position i under re.IGNORECASE
keyword_at(s, w, i) ==
    /\ i + Len(w) - 1 <= Len(s)
    /\ \A k \in 1..Len(w) : Upper(s[i + k - 1]) = w[k]

\* the keywords of one alternative from position i: the position after the
\* last keyword, 0 when the alternative does not match
RECURSIVE match_keywords(_, _, _)
match_keywords(s, i, kws) ==
    IF ~keyword_at(s, Head(kws), i) THEN 0
    ELSE IF Len(kws) = 1 THEN i + Len(Head(kws))
    ELSE LET j == skip_ws(s, i + Len(Head(kws))) IN
         IF j = i + Len(Head(kws)) THEN 0 ELSE match_keywords(s, j, Tail(kws))

\* (\s|;|$) at position p
prefix_boundary(s, p) == p > Len(s) \/ s[p] \in Whitespace \cup {";"}

\* _TRANSACTION_PREFIX.match(s): some alternative matches at the start and is
\* followed by the boundary group
transaction_prefix_match(s) ==
    \E a \in 1..Len(TRANSACTION_PREFIX) :
        LET p == match_keywords(s, 1, TRANSACTION_PREFIX[a]) IN
        p > 0 /\ prefix_boundary(s, p)

\* _reject_transaction_control: TRUE when it raises
reject_transaction_control(q) == transaction_prefix_match(LStrip(q))

\* sanitize_read_only_sql: the string returned, or the ReadOnlyQueryError raised
sanitize_read_only_sql(q) ==
    LET stripped == Strip(q) IN
    IF stripped = <<>> THEN
        [by |-> "sql_guard", ok |-> FALSE, exc |-> "ReadOnlyQueryError", why |-> "empty", text |-> <<>>]
    ELSE IF ~ensure_single_statement(stripped) THEN
        [by |-> "sql_guard", ok |-> FALSE, exc |-> "ReadOnlyQueryError", why |-> "multiple_statements", text |-> <<>>]
    ELSE IF reject_transaction_control(stripped) THEN
        [by |-> "sql_guard", ok |-> FALSE, exc |-> "ReadOnlyQueryError", why |-> "transaction_control", text |-> <<>>]
    ELSE [by |-> "sql_guard", ok |-> TRUE, exc |-> "", why |-> "", text |-> stripped]

(***************************************************************************)
(* connectors/postgresql/cli.py: the guard the psql executor runs.  Its    *)
(* scanner and comment remover are the same text as utils/sql_guard.py's.  *)
(***************************************************************************)
cli_find_semicolons_outside_literals(q) == scan_loop(q, 1, ScanStart)

cli_remove_comments(sql) == remove_comments_loop(sql, 1, 0, <<>>)

cli_only_trailing_semicolon(q, index) ==
    Strip(cli_remove_comments(SubSeq(q, index + 1, Len(q)))) = <<>>

cli_ensure_single_statement(q) ==
    LET semicolons == cli_find_semicolons_outside_literals(q) IN
    IF semicolons = <<>> THEN TRUE
    ELSE IF Len(semicolons) > 1 THEN FALSE
    ELSE cli_only_trailing_semicolon(q, semicolons[1])

\* an upper-case keyword at position i of the upper-cased text
cli_keyword_at(s, w, i) ==
    /\ i + Len(w) - 1 <= Len(s)
    /\ \A k \in 1..Len(w) : s[i + k - 1] = w[k]

RECURSIVE cli_match_keywords(_, _, _)
cli_match_keywords(s, i, kws) ==
    IF ~cli_keyword_at(s, Head(kws), i) THEN 0
    ELSE IF Len(kws) = 1 THEN i + Len(Head(kws))
    ELSE LET j == skip_ws(s, i + Len(Head(kws))) IN
         IF j = i + Len(Head(kws)) THEN 0 ELSE cli_match_keywords(s, j, Tail(kws))

\* _reject_transaction_control of the connector: the 14 patterns tried in
\* turn on query.lstrip().upper(); TRUE when it raises
cli_reject_transaction_control(q) ==
    LET upper == UpperText(LStrip(q)) IN
    \E a \in 1..Len(TRANSACTION_PREFIX) :
        LET p == cli_match_keywords(upper, 1, TRANSACTION_PREFIX[a]) IN
        p > 0 /\ prefix_boundary(upper, p)

\* _prepare_user_query: the string returned, or the ValueError raised
prepare_user_query(q) ==
    LET stripped == Strip(q) IN
    IF stripped = <<>> THEN
        [by |-> "pg_cli", ok |-> FALSE, exc |-> "ValueError", why |-> "empty", text |-> <<>>]
    ELSE IF ~cli_ensure_single_statement(stripped) THEN
        [by |-> "pg_cli", ok |-> FALSE, exc |-> "ValueError", why |-> "multiple_statements", text |-> <<>>]
    ELSE IF cli_reject_transaction_control(stripped) THEN
        [by |-> "pg_cli", ok |-> FALSE, exc |-> "ValueError", why |-> "transaction_control", text |-> <<>>]
    ELSE [by |-> "pg_cli", ok |-> TRUE, exc |-> "", why |-> "", text |-> stripped]

(***************************************************************************)
(* The connection an executor is bound to.  Bound once, never mutated:     *)
(* two endpoints, an allowlist of two databases with its default, an       *)
(* optional SSH tunnel through a bastion.                                  *)
(***************************************************************************)
Executors == {"pg_cli", "pg_python", "ch_cli", "ch_python"}
IsCli(e) == e \in {"pg_cli", "ch_cli"}
IsPg(e) == e \in {"pg_cli", "pg_python"}

\* connection.servers, by host, in configured order
Servers == <<"db1", "db2">>
AllowedDatabases == {"main", "aux"}
DefaultDatabase == "main"
SshHost == "bastion"
LocalHosts == {"localhost", "127.0.0.1", "::1"}

\* the values of max_result_bytes the model configures (0: no cap)
CapValues == {0, 3, 64}

\* the arguments of a call; "" stands for an argument omitted or empty
DatabaseArgs == {"", "aux", "other"}
ServerArgs == {"", "db2", "nohost"}
ExecQueries == {<<"a">>, <<"a", ";", "a">>}

\* Connection.resolve_database: the database name, or the refusal
resolve_database(database) ==
    IF database = "" THEN [ok |-> TRUE, name |-> DefaultDatabase]
    ELSE IF database \notin AllowedDatabases THEN [ok |-> FALSE, name |-> ""]
    ELSE [ok |-> TRUE, name |-> database]

\* `database or self.database`, as the executors compute db_name
database_or_default(database) == IF database = "" THEN DefaultDatabase ELSE database

\* BaseConnector._select_server: the endpoint, or the ValueError
select_server(server, ssh) ==
    LET direct == {k \in 1..Len(Servers) : Servers[k] = server}
        local == {k \in 1..Len(Servers) : Servers[k] \in LocalHosts}
    IN IF server = "" THEN [ok |-> TRUE, host |-> Servers[1]]
       ELSE IF direct # {} THEN
           [ok |-> TRUE, host |-> Servers[CHOOSE k \in direct : \A m \in direct : k <= m]]
       ELSE IF ssh /\ server = SshHost /\ local # {} THEN
           [ok |-> TRUE, host |-> Servers[CHOOSE k \in local : \A m \in local : k <= m]]
       ELSE [ok |-> FALSE, host |-> ""]

(***************************************************************************)
(* Streaming under the size cap.                                           *)
(***************************************************************************)
Notice(n) == "[RESULT TRUNCATED: exceeded max_result_bytes=" \o ToString(n) \o " bytes]"

\* the status lines of psql the psql executor discards
PsqlStatusWords == {"BEGIN", "SET", "COMMIT", "ROLLBACK"}
RowCountLines == {"(1 row)", "(2 rows)"}
is_status_noise(line) == line \in PsqlStatusWords \/ line \in RowCountLines

\* append_line, and the same steps inline in the two CLI read loops, without
\* the look ahead at what the line would add
append_line_unchecked(ls, total, line, max_bytes) ==
    LET additional == IF ls = <<>> THEN Len(line) ELSE 1 + Len(line) IN
    [lines |-> Append(ls, line), total_bytes |-> total + additional,
     truncated |-> max_bytes > 0 /\ total + additional > max_bytes]

\* append_line enforcing the cap whatever its value, 0 included
append_line_cap_always(ls, total, line, max_bytes) ==
    LET additional == IF ls = <<>> THEN Len(line) ELSE 1 + Len(line) IN
    IF ls # <<>> /\ total + additional > max_bytes THEN
        [lines |-> ls, total_bytes |-> total, truncated |-> TRUE]
    ELSE
        [lines |-> Append(ls, line), total_bytes |-> total + additional,
         truncated |-> total + additional > max_bytes]

\* append_line, and the same steps inline in the two CLI read loops: the
\* lines, the byte count and whether the cap stopped the stream
append_line(ls, total, line, max_bytes) ==
    LET additional == IF ls = <<>> THEN Len(line) ELSE 1 + Len(line)
        enforce_limit == max_bytes > 0
    IN IF enforce_limit /\ ls # <<>> /\ total + additional > max_bytes THEN
           [lines |-> ls, total_bytes |-> total, truncated |-> TRUE]
       ELSE
           [lines |-> Append(ls, line), total_bytes |-> total + additional,
            truncated |-> enforce_limit /\ total + additional > max_bytes]

\* the text before the notice is put on, as its lines: '\n'.join(lines),
\* after the CLI executors drop one empty last line
joined_output(e, ls) ==
    LET kept == IF IsCli(e) /\ ls # <<>> /\ ls[Len(ls)] = ""
                THEN SubSeq(ls, 1, Len(ls) - 1) ELSE ls
    IN IF kept = <<"">> THEN <<>> ELSE kept

\* the notice put on whether or not the stream was truncated
final_output_always_notice(e, ls, was_truncated, n) == joined_output(e, ls) \o <<Notice(n)>>

\* the returned text, as its lines
final_output(e, ls, was_truncated, n) ==
    IF was_truncated THEN joined_output(e, ls) \o <<Notice(n)>> ELSE joined_output(e, ls)

\* _effective_max_result_bytes: the cap of the call, 0 while
\* disable_result_limit is active around it
effective_max_result_bytes(enforce_limit, n) == IF enforce_limit THEN n ELSE 0

\* what the backend may send as a line
BackendLines(n) == {"id", "", "4242", "COMMIT", Notice(n)}

NoVerdict == [by |-> "", ok |-> FALSE, exc |-> "", why |-> "", text |-> <<>>]

\* the text handed to the guard
RECURSIVE Flatten(_)
Flatten(pieces) == IF pieces = <<>> THEN <<>> ELSE Head(pieces) \o Flatten(Tail(pieces))
QueryText == Flatten(query)

GuardIdle ==
    /\ query = <<>>
    /\ verdict = NoVerdict

(***************************************************************************)
(* utils/timeout_wrapper.py: with_hard_timeout(coro, timeout_seconds).     *)
(*                                                                         *)
(* coro is what the wrapped operation would do left alone: after duration  *)
(* ticks it returns a value or raises exc with a message that opens with   *)
(* prefix.  elapsed counts the ticks since the call.                       *)
(***************************************************************************)
BackendPrefixes == {"PostgreSQL:", "ClickHouse:", "psql:", "clickhouse-client:", "SSH:"}
CoroOutcomes ==
    {[exc |-> "", prefix |-> ""], [exc |-> "RuntimeError", prefix |-> ""],
     [exc |-> "RuntimeError", prefix |-> "psql:"], [exc |-> "TimeoutError", prefix |-> ""]}
        \cup {[exc |-> "TimeoutError", prefix |-> p] : p \in BackendPrefixes}

NoCoro == [exc |-> "", prefix |-> "", duration |-> 0]
NoHardResult == [kind |-> "none", exc |-> "", prefix |-> "", at |-> 0]

TimeoutIdle ==
    /\ coro = NoCoro
    /\ timeout_seconds = 0
    /\ elapsed = 0
    /\ hard_result = NoHardResult



(***************************************************************************)
(* config/connection.py: the records of the configuration file and their   *)
(* validation.                                                             *)
(*                                                                         *)
(* A record is a dict; a key it may leave out is <<>> when absent and      *)
(* <<v>> when it holds v.  Names, passwords and paths are text.  The keys  *)
(* servers and username are always there and are left out of the model.    *)
(***************************************************************************)
Absent == <<>>
Has(field) == field # <<>>
ValueOf(field) == field[1]
\* Python's truth of an optional text: there and not empty
Truthy(field) == Has(field) /\ ValueOf(field) # <<>>
Range(s) == {s[k] : k \in 1..Len(s)}

DEFAULT_QUERY_TIMEOUT == 120
DEFAULT_CONNECTION_TIMEOUT == 10
DEFAULT_MAX_RESULT_BYTES == 10000000
DEFAULT_SSH_TIMEOUT == 5

\* str.replace(a, b) for one-character a and b
ReplaceChar(s, a, b) == [k \in 1..Len(s) |-> IF s[k] = a THEN b ELSE s[k]]

\* f"{prefix}{conn_name.upper().replace('-', '_')}"
convention_env_name(prefix, conn_name) ==
    <<prefix>> \o ReplaceChar(UpperText(conn_name), "-", "_")

\* env_dict.get(name)
env_get(e, name) == IF name \in DOMAIN e THEN e[name] ELSE Absent

\* os.path.expanduser
expanduser(path) ==
    IF path # <<>> /\ Head(path) = "~" THEN <<"/home/user">> \o Tail(path) ELSE path

\* _normalize_database_list, for a list of strings
RECURSIVE normalize_database_loop(_, _, _)
normalize_database_loop(value, i, cleaned) ==
    IF i > Len(value) THEN
        IF cleaned = <<>>
        THEN [ok |-> FALSE, error |-> "must contain at least one database name", cleaned |-> <<>>]
        ELSE [ok |-> TRUE, error |-> "", cleaned |-> cleaned]
    ELSE
        LET name == Strip(value[i]) IN
        IF name = <<>>
        THEN [ok |-> FALSE, error |-> "entries must be non-empty strings", cleaned |-> <<>>]
        ELSE normalize_database_loop(value, i + 1,
                 IF name \in Range(cleaned) THEN cleaned ELSE Append(cleaned, name))

normalize_database_list(value) == normalize_database_loop(value, 1, <<>>)

PasswordResult(ok, error, password) == [ok |-> ok, error |-> error, password |-> password]

\* Connection.__init__, "Load password"
load_password(config, e) ==
    IF Has(config.password_env) THEN
        LET found == env_get(e, ValueOf(config.password_env)) IN
        IF Has(found) THEN PasswordResult(TRUE, "", ValueOf(found))
        ELSE PasswordResult(FALSE, "Password environment variable not found", <<>>)
    ELSE IF Has(config.password) THEN PasswordResult(TRUE, "", ValueOf(config.password))
    ELSE
        LET found == env_get(e, convention_env_name("DB_PASSWORD_", ValueOf(config.connection_name)))
        IN PasswordResult(TRUE, "", IF Has(found) THEN ValueOf(found) ELSE <<>>)

DatabasesResult(ok, error, database, allowed) ==
    [ok |-> ok, error |-> error, database |-> database, allowed_databases |-> allowed]

\* Connection.__init__, "Parse database allowlist/defaults", up to the
\* refusal of an empty default: the stripped default and the normalized list
database_candidates(config) ==
    IF Has(config.allowed_databases) /\ Has(config.databases) THEN
        DatabasesResult(FALSE, "Use only one of 'allowed_databases' or 'databases'", <<>>, <<>>)
    ELSE
        LET allowed_raw == IF Has(config.allowed_databases) THEN config.allowed_databases
                           ELSE config.databases
            norm == IF Has(allowed_raw) THEN normalize_database_list(ValueOf(allowed_raw))
                    ELSE [ok |-> TRUE, error |-> "", cleaned |-> <<>>]
            default_db == IF Has(config.default_database) THEN ValueOf(config.default_database)
                          ELSE IF Truthy(config.db) THEN ValueOf(config.db)
                          ELSE IF norm.cleaned # <<>> THEN norm.cleaned[1]
                          ELSE <<>>
        IN
        IF ~norm.ok THEN DatabasesResult(FALSE, norm.error, <<>>, <<>>)
        ELSE IF /\ Truthy(config.db) /\ Truthy(config.default_database)
                /\ Strip(ValueOf(config.db)) # Strip(ValueOf(config.default_database)) THEN
            DatabasesResult(FALSE, "'db' and 'default_database' must match", <<>>, <<>>)
        ELSE IF Strip(default_db) = <<>> THEN
            DatabasesResult(FALSE, "missing required field 'db' or 'default_database'", <<>>, <<>>)
        ELSE DatabasesResult(TRUE, "", Strip(default_db), norm.cleaned)

\* the allowlist step without the look-up of the default in a given list
parse_databases_any_default(config) ==
    LET c == database_candidates(config) IN
    IF ~c.ok THEN c
    ELSE IF c.allowed_databases = <<>> THEN DatabasesResult(TRUE, "", c.database, <<c.database>>)
    ELSE c

\* Connection.__init__, "Parse database allowlist/defaults"
parse_databases(config) ==
    LET c == database_candidates(config) IN
    IF ~c.ok THEN c
    ELSE IF c.allowed_databases = <<>> THEN DatabasesResult(TRUE, "", c.database, <<c.database>>)
    ELSE IF c.database \notin Range(c.allowed_databases) THEN
        DatabasesResult(FALSE, "'default_database' must be included in 'allowed_databases'",
                        <<>>, <<>>)
    ELSE c

TunnelResult(ok, error, ssh_tunnel) == [ok |-> ok, error |-> error, ssh_tunnel |-> ssh_tunnel]

\* SSHTunnelConfig.__post_init__ without the demand for a credential
post_init_any_credential(private_key, password, ssh_timeout) ==
    IF Has(ssh_timeout) /\ ValueOf(ssh_timeout) <= 0 THEN
        TunnelResult(FALSE, "SSH tunnel timeout must be a positive integer", Absent)
    ELSE TunnelResult(TRUE, "", <<[private_key |-> private_key, password |-> password,
                                   ssh_timeout |-> ssh_timeout]>>)

\* the dataclass SSHTunnelConfig and its __post_init__; None is Absent
post_init(private_key, password, ssh_timeout) ==
    IF ~Truthy(private_key) /\ ~Truthy(password) THEN
        TunnelResult(FALSE, "requires either 'private_key' or 'password'/'password_env'", Absent)
    ELSE IF Has(ssh_timeout) /\ ValueOf(ssh_timeout) <= 0 THEN
        TunnelResult(FALSE, "SSH tunnel timeout must be a positive integer", Absent)
    ELSE TunnelResult(TRUE, "", <<[private_key |-> private_key, password |-> password,
                                   ssh_timeout |-> ssh_timeout]>>)

\* SSHTunnelConfig.from_dict; host and user are always there
from_dict(data, e) ==
    IF Has(data.enabled) /\ ~ValueOf(data.enabled) THEN TunnelResult(TRUE, "", Absent)
    ELSE IF Has(data.password_env) /\ ~Has(env_get(e, ValueOf(data.password_env))) THEN
        TunnelResult(FALSE, "SSH tunnel password environment variable not found", Absent)
    ELSE
        LET password == IF Has(data.password_env) THEN env_get(e, ValueOf(data.password_env))
                        ELSE data.password
            private_key == IF Truthy(data.private_key)
                           THEN <<expanduser(ValueOf(data.private_key))>>
                           ELSE data.private_key
        IN post_init(private_key, password, data.ssh_timeout)

\* Connection.__init__, "Parse SSH tunnel if present": a record without a
\* private key and without password fields takes SSH_PASSWORD_<NAME>
parse_ssh_tunnel(config, e) ==
    IF ~Has(config.ssh_tunnel) THEN TunnelResult(TRUE, "", Absent)
    ELSE
        LET data == ValueOf(config.ssh_tunnel)
            legacy == env_get(e, convention_env_name("SSH_PASSWORD_",
                                                     ValueOf(config.connection_name)))
            hydrated == IF /\ ~Truthy(data.private_key)
                           /\ ~Has(data.password) /\ ~Has(data.password_env)
                           /\ Truthy(legacy)
                        THEN [data EXCEPT !.password = legacy] ELSE data
        IN from_dict(hydrated, e)

\* max_result_bytes of a record that leaves the key out read as no cap
load_max_result_bytes_unlimited(config) ==
    IF Has(config.max_result_bytes) THEN ValueOf(config.max_result_bytes) ELSE 0

\* config.get("max_result_bytes", DEFAULT_MAX_RESULT_BYTES)
load_max_result_bytes(config) ==
    IF Has(config.max_result_bytes) THEN ValueOf(config.max_result_bytes)
    ELSE DEFAULT_MAX_RESULT_BYTES

NoConnection ==
    [ok |-> FALSE, error |-> "", name |-> <<>>, db_type |-> "", implementation |-> "",
     database |-> <<>>, allowed_databases |-> <<>>, password |-> <<>>, ssh_tunnel |-> Absent,
     query_timeout |-> 0, connection_timeout |-> 0, max_result_bytes |-> 0]

Invalid(error) == [NoConnection EXCEPT !.error = error]

\* Connection.__init__: the validated connection, or the ValueError raised
Connection(config, e) ==
    IF ~Has(config.connection_name) THEN Invalid("missing required field 'connection_name'")
    ELSE IF ~Has(config.type) THEN Invalid("missing required field 'type'")
    ELSE IF /\ ~Has(config.db) /\ ~Has(config.default_database)
            /\ ~Has(config.allowed_databases) /\ ~Has(config.databases) THEN
        Invalid("missing required field 'db' or 'allowed_databases'")
    ELSE IF ValueOf(config.type) \notin {"postgresql", "clickhouse"} THEN
        Invalid("Invalid database type")
    ELSE IF Has(config.implementation) /\ ValueOf(config.implementation) \notin {"python", "cli"} THEN
        Invalid("Invalid implementation")
    ELSE
        LET pw == load_password(config, e)
            dbs == parse_databases(config)
            ssh == parse_ssh_tunnel(config, e)
        IN
        IF ~pw.ok THEN Invalid(pw.error)
        ELSE IF ~dbs.ok THEN Invalid(dbs.error)
        ELSE IF ~ssh.ok THEN Invalid(ssh.error)
        ELSE [ok |-> TRUE, error |-> "",
              name |-> ValueOf(config.connection_name),
              db_type |-> ValueOf(config.type),
              implementation |-> IF Has(config.implementation)
                                 THEN ValueOf(config.implementation) ELSE "cli",
              database |-> dbs.database,
              allowed_databases |-> dbs.allowed_databases,
              password |-> pw.password,
              ssh_tunnel |-> ssh.ssh_tunnel,
              query_timeout |-> IF Has(config.query_timeout)
                                THEN ValueOf(config.query_timeout) ELSE DEFAULT_QUERY_TIMEOUT,
              connection_timeout |-> IF Has(config.connection_timeout)
                                     THEN ValueOf(config.connection_timeout)
                                     ELSE DEFAULT_CONNECTION_TIMEOUT,
              max_result_bytes |-> load_max_result_bytes(config)]

NoConnector == [built |-> FALSE, ssh_timeout |-> 0, hard_timeout |-> 0, max_result_bytes |-> 0]

\* BaseConnector.__init__ with no SSH term for a connection without a tunnel
BaseConnector_no_tunnel_no_term(c) ==
    LET ssh_timeout == IF ~Has(c.ssh_tunnel) THEN 0
                       ELSE IF /\ Has(ValueOf(c.ssh_tunnel).ssh_timeout)
                               /\ ValueOf(ValueOf(c.ssh_tunnel).ssh_timeout) # 0
                       THEN ValueOf(ValueOf(c.ssh_tunnel).ssh_timeout)
                       ELSE DEFAULT_SSH_TIMEOUT
    IN [built |-> TRUE, ssh_timeout |-> ssh_timeout,
        hard_timeout |-> ssh_timeout + c.connection_timeout + c.query_timeout,
        max_result_bytes |-> c.max_result_bytes]

\* BaseConnector.__init__: the timeouts and limits of a connector
BaseConnector(c) ==
    LET ssh_timeout == IF /\ Has(c.ssh_tunnel)
                          /\ Has(ValueOf(c.ssh_tunnel).ssh_timeout)
                          /\ ValueOf(ValueOf(c.ssh_tunnel).ssh_timeout) # 0
                       THEN ValueOf(ValueOf(c.ssh_tunnel).ssh_timeout)
                       ELSE DEFAULT_SSH_TIMEOUT
    IN [built |-> TRUE, ssh_timeout |-> ssh_timeout,
        hard_timeout |-> ssh_timeout + c.connection_timeout + c.query_timeout,
        max_result_bytes |-> c.max_result_bytes]

(***************************************************************************)
(* config/loader.py: load_connections over the records of the file.  The   *)
(* registry keeps the connections in the order they were put in; an entry  *)
(* of the error list carries the label the message opens with and the      *)
(* message of the record.                                                  *)
(***************************************************************************)
NoLoad == [status |-> "none", connections |-> <<>>, errors |-> <<>>]
LoadFailed(errors) == [status |-> "error", connections |-> <<>>, errors |-> errors]
Loaded(connections) == [status |-> "ok", connections |-> connections, errors |-> <<>>]

\* config.get("connection_name", f"#{idx+1}")
record_label(config, idx) ==
    IF Has(config.connection_name) THEN ValueOf(config.connection_name)
    ELSE <<"#", ToString(idx)>>

Names(connections) == {connections[k].name : k \in 1..Len(connections)}

\* the loop of load_connections with a later record of a name put in place
\* of the earlier one
RECURSIVE load_loop_last_wins(_, _, _, _, _)
load_loop_last_wins(records, e, idx, connections, errors) ==
    IF idx > Len(records) THEN
        IF errors # <<>> THEN LoadFailed(errors) ELSE Loaded(connections)
    ELSE
        LET config == records[idx]
            c == Connection(config, e)
        IN
        IF ~config.is_dict THEN
            load_loop_last_wins(records, e, idx + 1, connections,
                Append(errors, [label |-> <<"#", ToString(idx)>>, why |-> "must be a dictionary"]))
        ELSE IF ~c.ok THEN
            load_loop_last_wins(records, e, idx + 1, connections,
                Append(errors, [label |-> record_label(config, idx), why |-> c.error]))
        ELSE IF c.name \in Names(connections) THEN
            load_loop_last_wins(records, e, idx + 1,
                [k \in 1..Len(connections) |->
                    IF connections[k].name = c.name THEN c ELSE connections[k]], errors)
        ELSE load_loop_last_wins(records, e, idx + 1, Append(connections, c), errors)

load_connections_last_wins(records, e) ==
    IF records = <<>>
    THEN LoadFailed(<<[label |-> <<>>, why |-> "Configuration file is empty"]>>)
    ELSE load_loop_last_wins(records, e, 1, <<>>, <<>>)

\* the loop of load_connections giving up at the first record that fails
RECURSIVE load_loop_first_error(_, _, _, _, _)
load_loop_first_error(records, e, idx, connections, errors) ==
    IF idx > Len(records) \/ errors # <<>> THEN
        IF errors # <<>> THEN LoadFailed(errors) ELSE Loaded(connections)
    ELSE
        LET config == records[idx]
            c == Connection(config, e)
        IN
        IF ~config.is_dict THEN
            load_loop_first_error(records, e, idx + 1, connections,
                Append(errors, [label |-> <<"#", ToString(idx)>>, why |-> "must be a dictionary"]))
        ELSE IF ~c.ok THEN
            load_loop_first_error(records, e, idx + 1, connections,
                Append(errors, [label |-> record_label(config, idx), why |-> c.error]))
        ELSE IF c.name \in Names(connections) THEN
            load_loop_first_error(records, e, idx + 1, connections,
                Append(errors, [label |-> c.name, why |-> "Duplicate connection name"]))
        ELSE load_loop_first_error(records, e, idx + 1, Append(connections, c), errors)

load_connections_first_error(records, e) ==
    IF records = <<>>
    THEN LoadFailed(<<[label |-> <<>>, why |-> "Configuration file is empty"]>>)
    ELSE load_loop_first_error(records, e, 1, <<>>, <<>>)

\* the loop of load_connections: idx is the 1-based place of the record
RECURSIVE load_loop(_, _, _, _, _)
load_loop(records, e, idx, connections, errors) ==
    IF idx > Len(records) THEN
        IF errors # <<>> THEN LoadFailed(errors) ELSE Loaded(connections)
    ELSE
        LET config == records[idx]
            c == Connection(config, e)
        IN
        IF ~config.is_dict THEN
            load_loop(records, e, idx + 1, connections,
                Append(errors, [label |-> <<"#", ToString(idx)>>, why |-> "must be a dictionary"]))
        ELSE IF ~c.ok THEN
            load_loop(records, e, idx + 1, connections,
                Append(errors, [label |-> record_label(config, idx), why |-> c.error]))
        ELSE IF c.name \in Names(connections) THEN
            load_loop(records, e, idx + 1, connections,
                Append(errors, [label |-> c.name, why |-> "Duplicate connection name"]))
        ELSE load_loop(records, e, idx + 1, Append(connections, c), errors)

\* load_connections for a file that exists and holds a list
load_connections(records, e) ==
    IF records = <<>>
    THEN LoadFailed(<<[label |-> <<>>, why |-> "Configuration file is empty"]>>)
    ELSE load_loop(records, e, 1, <<>>, <<>>)

(***************************************************************************)
(* The records, files and environments the configuration is checked on.    *)
(***************************************************************************)
NameAB == <<"a", "-", "b">>
NameC == <<"c">>
DbM == <<"m">>
DbX == <<"x">>
Secret == <<"s", "3">>
KeyPath == <<"~", "/", "k">>

PW_VAR == <<"P", "W">>
SSH_PW_VAR == <<"S", "P", "W">>
EnvNames ==
    {PW_VAR, SSH_PW_VAR,
     convention_env_name("DB_PASSWORD_", NameAB), convention_env_name("SSH_PASSWORD_", NameAB)}
\* what a variable holds when it is set to a value: a text of its own
EnvValue(n) == <<"v">> \o n
\* a variable is not there, holds the empty string or holds its value
Envs ==
    {[n \in EnvNames |-> IF c[n] = "unset" THEN Absent
                         ELSE IF c[n] = "empty" THEN <<<<>>>> ELSE <<EnvValue(n)>>] :
        c \in [EnvNames -> {"unset", "empty", "set"}]}
NoEnv == [n \in EnvNames |-> Absent]

NoConfig ==
    [is_dict |-> FALSE, connection_name |-> Absent, type |-> Absent, implementation |-> Absent,
     password |-> Absent, password_env |-> Absent, db |-> Absent, default_database |-> Absent,
     allowed_databases |-> Absent, databases |-> Absent, ssh_tunnel |-> Absent,
     query_timeout |-> Absent, connection_timeout |-> Absent, max_result_bytes |-> Absent]

\* a record that is valid on its own
BaseRecord ==
    [NoConfig EXCEPT !.is_dict = TRUE, !.connection_name = <<NameAB>>,
                     !.type = <<"postgresql">>, !.db = <<DbM>>]

PasswordRecords ==
    {[BaseRecord EXCEPT !.password = p, !.password_env = pe] :
        p \in {Absent, <<Secret>>}, pe \in {Absent, <<PW_VAR>>}}

DatabaseRecords ==
    {[BaseRecord EXCEPT !.db = d, !.default_database = dd,
                        !.allowed_databases = ad, !.databases = ds] :
        d \in {Absent, <<<<>>>>, <<DbM>>, <<<<" ">>>>},
        dd \in {Absent, <<DbM>>, <<DbX>>},
        ad \in {Absent, <<<<>>>>, <<<<DbX, DbM>>>>, <<<<<<" ", "m">>, DbM>>>>},
        ds \in {Absent, <<<<DbX>>>>}}

TunnelRecords ==
    {[enabled |-> en, private_key |-> k, password |-> p, password_env |-> pe, ssh_timeout |-> t] :
        en \in {Absent, <<FALSE>>},
        k \in {Absent, <<<<>>>>, <<KeyPath>>},
        p \in {Absent, <<<<>>>>, <<Secret>>},
        pe \in {Absent, <<SSH_PW_VAR>>},
        t \in {Absent, <<0>>, <<3>>}}

TimeoutRecords ==
    {[BaseRecord EXCEPT !.ssh_tunnel = st, !.query_timeout = qt, !.connection_timeout = ct] :
        st \in {Absent} \cup {<<d>> : d \in TunnelRecords},
        qt \in {Absent, <<1>>}, ct \in {Absent, <<2>>}}

LimitRecords == {[BaseRecord EXCEPT !.max_result_bytes = m] : m \in {Absent, <<0>>, <<64>>}}

\* the values a record can give its two timeouts: none, a positive number,
\* zero, a negative number
TimeoutValueRecords ==
    {[BaseRecord EXCEPT !.query_timeout = qt, !.connection_timeout = ct] :
        qt \in {Absent, <<1>>, <<0>>, <<-1>>}, ct \in {Absent, <<2>>, <<0>>, <<-1>>}}

\* the records of a file of several: named or not, of a type that exists
\* or not, of one database or another, or not a dict at all
FileRecords ==
    {NoConfig} \cup
    {[BaseRecord EXCEPT !.connection_name = n, !.type = <<ty>>, !.db = d] :
        n \in {Absent, <<NameAB>>, <<NameC>>}, ty \in {"postgresql", "mysql"},
        d \in {<<DbM>>, <<DbX>>}}

\* the files of at most n records
RECURSIVE FilesOf(_)
FilesOf(n) ==
    IF n = 0 THEN {<<>>}
    ELSE FilesOf(n - 1) \cup {Append(f, r) : f \in {g \in FilesOf(n - 1) : Len(g) = n - 1},
                                             r \in FileRecords}

ConfigIdle ==
    /\ env = NoEnv
    /\ raw_configs = <<>>
    /\ loaded = NoLoad
    /\ connectors = <<>>

(***************************************************************************)
(* The file_path mode of run_query_read_only.  A path is the sequence of   *)
(* its components; the file system maps every path of the model to what is *)
(* there.                                                                  *)
(***************************************************************************)
Cwd == <<"tmp">>
FilePathArgs ==
    {[absolute |-> FALSE, parts |-> <<"out.tsv">>],
     [absolute |-> FALSE, parts |-> <<"results", "out.tsv">>],
     [absolute |-> TRUE, parts |-> <<"tmp", "results", "out.tsv">>],
     [absolute |-> TRUE, parts |-> <<"tmp", "results", "..", "out.tsv">>],
     [absolute |-> TRUE, parts |-> <<"tmp", "results", "deep", "out.tsv">>]}

\* Path.resolve(): made absolute, '.' and '..' folded
RECURSIVE fold_dots(_, _)
fold_dots(parts, acc) ==
    IF parts = <<>> THEN acc
    ELSE IF Head(parts) = "." THEN fold_dots(Tail(parts), acc)
    ELSE IF Head(parts) = ".." THEN
        fold_dots(Tail(parts), IF acc = <<>> THEN acc ELSE SubSeq(acc, 1, Len(acc) - 1))
    ELSE fold_dots(Tail(parts), Append(acc, Head(parts)))

resolve(path) == fold_dots(IF path.absolute THEN path.parts ELSE Cwd \o path.parts, <<>>)

Parents(path) == {SubSeq(path, 1, k) : k \in 1..(Len(path) - 1)}
FsPaths == UNION {Parents(resolve(a)) \cup {resolve(a)} : a \in FilePathArgs}

NoEntry == [kind |-> "none", content |-> <<>>]
Directory == [kind |-> "dir", content |-> <<>>]
File(content) == [kind |-> "file", content |-> content]
NoFs == [p \in FsPaths |-> NoEntry]
\* what a call of the tool was asked and what it gave: the text (kind tsv),
\* the resolved path (kind path) or an error
NoToolReturn ==
    [kind |-> "none", exc |-> "", value |-> <<>>, file_path |-> Absent, text |-> <<>>,
     enforce_limit |-> TRUE]
ToolReturn(kind, exc, value, file_path, outcome) ==
    [kind |-> kind, exc |-> exc, value |-> value, file_path |-> file_path,
     text |-> outcome.text, enforce_limit |-> ~Has(file_path)]

\* what execute_query_with_timeout may give the dispatcher
QueryOutcomes ==
    {[kind |-> "ok", exc |-> "", text |-> <<"id", "1">>],
     [kind |-> "ok", exc |-> "", text |-> <<>>],
     [kind |-> "error", exc |-> "RuntimeError", text |-> <<>>]}

\* the file systems a call may find: the working directory is there, and a
\* path is a file or a directory only inside a directory
InitialFs ==
    {f \in [FsPaths -> {NoEntry, Directory, File(<<"existing">>)}] :
        /\ f[Cwd] = Directory
        /\ \A p \in FsPaths :
               (f[p].kind # "none" /\ Len(p) > 1) => f[SubSeq(p, 1, Len(p) - 1)].kind = "dir"}

\* steps (b) to (d) of the file_path mode: the parents are made, the query
\* runs with the cap lifted, its text is written whole and the path returned
write_to_file(files, file_path, outcome) ==
    LET path == resolve(ValueOf(file_path))
        with_parents == [p \in FsPaths |-> IF p \in Parents(path) THEN Directory ELSE files[p]]
    IN
    IF \E p \in Parents(path) : files[p].kind = "file" THEN
        [fs |-> files, ret |-> ToolReturn("error", "FileWriteError", <<>>, file_path, outcome)]
    ELSE IF outcome.kind = "error" THEN
        [fs |-> with_parents, ret |-> ToolReturn("error", outcome.exc, <<>>, file_path, outcome)]
    ELSE
        [fs |-> [with_parents EXCEPT ![path] = File(outcome.text)],
         ret |-> ToolReturn("path", "", path, file_path, outcome)]

\* the file_path mode without step (a)
run_query_read_only_overwriting(files, file_path, outcome) ==
    IF ~Has(file_path) THEN
        [fs |-> files,
         ret |-> IF outcome.kind = "ok"
                 THEN ToolReturn("tsv", "", outcome.text, file_path, outcome)
                 ELSE ToolReturn("error", outcome.exc, <<>>, file_path, outcome)]
    ELSE write_to_file(files, file_path, outcome)

\* run_query_read_only(connection_name, query, server, file_path) around
\* what the executor gave; step (a): a path that exists is refused
run_query_read_only(files, file_path, outcome) ==
    IF ~Has(file_path) THEN
        [fs |-> files,
         ret |-> IF outcome.kind = "ok"
                 THEN ToolReturn("tsv", "", outcome.text, file_path, outcome)
                 ELSE ToolReturn("error", outcome.exc, <<>>, file_path, outcome)]
    ELSE IF files[resolve(ValueOf(file_path))].kind # "none" THEN
        [fs |-> files, ret |-> ToolReturn("error", "FileExistsError", <<>>, file_path, outcome)]
    ELSE write_to_file(files, file_path, outcome)

FileIdle ==
    /\ fs = NoFs
    /\ tool_return = NoToolReturn

(***************************************************************************)
(* connectors/base.py: _select_server over the endpoints of a connector.   *)
(* Hosts and selectors are texts; an endpoint is a host and a port; the    *)
(* SSH descriptor is absent or gives the tunnel's host.                    *)
(***************************************************************************)
Localhost == <<"l", "o", "c", "a", "l", "h", "o", "s", "t">>
Loopback4 == <<"1", "2", "7", ".", "0", ".", "0", ".", "1">>
Loopback6 == <<":", ":", "1">>
local_hosts == {Localhost, Loopback4, Loopback6}

Contains(text, ch) == \E i \in 1..Len(text) : text[i] = ch

NoServer == [host |-> <<>>, port |-> 0]
NoSelection == [kind |-> "none", exc |-> "", message |-> "", server |-> NoServer,
                available |-> <<>>]
Selected(srv) == [NoSelection EXCEPT !.kind = "return", !.server = srv]
SelectionError(message, available) ==
    [NoSelection EXCEPT !.kind = "raise", !.exc = "ValueError", !.message = message,
                        !.available = available]

\* the name an endpoint is shown under: the tunnel's host for a local
\* endpoint of a tunnelled connector, its own host otherwise
display_host(srv, ssh) ==
    IF Has(ssh) /\ srv.host \in local_hosts /\ ValueOf(ssh) # <<>> THEN ValueOf(ssh)
    ELSE srv.host

RECURSIVE available_hosts_loop(_, _, _, _)
available_hosts_loop(servers, ssh, k, acc) ==
    IF k > Len(servers) THEN acc
    ELSE LET d == display_host(servers[k], ssh) IN
         available_hosts_loop(servers, ssh, k + 1,
             IF \E i \in 1..Len(acc) : acc[i] = d THEN acc ELSE Append(acc, d))

available_hosts(servers, ssh) == available_hosts_loop(servers, ssh, 1, <<>>)

\* the first endpoint of the list, from position k on, that satisfies the test
RECURSIVE first_with_host(_, _, _)
first_with_host(servers, hosts, k) ==
    IF k > Len(servers) THEN 0
    ELSE IF servers[k].host \in hosts THEN k
    ELSE first_with_host(servers, hosts, k + 1)

\* _select_server that takes the last endpoint of the host
BaseConnector_select_server_last_match(servers, ssh, server) ==
    LET server_str == IF Has(server) THEN Strip(ValueOf(server)) ELSE <<>>
        hits == {k \in 1..Len(servers) : servers[k].host = server_str}
        local == first_with_host(servers, local_hosts, 1)
    IN IF servers = <<>> THEN SelectionError("has no servers configured", <<>>)
       ELSE IF server_str = <<>> THEN Selected(servers[1])
       ELSE IF hits # {} THEN Selected(servers[CHOOSE k \in hits : \A m \in hits : m <= k])
       ELSE IF Contains(server_str, ":") THEN
           SelectionError("must be a hostname without port", <<>>)
       ELSE IF Has(ssh) /\ server_str = ValueOf(ssh) /\ local # 0 THEN Selected(servers[local])
       ELSE SelectionError("not found", available_hosts(servers, ssh))

\* _select_server: the endpoint, or the ValueError and what its message lists
BaseConnector_select_server(servers, ssh, server) ==
    LET server_str == IF Has(server) THEN Strip(ValueOf(server)) ELSE <<>>
        direct == first_with_host(servers, {server_str}, 1)
        local == first_with_host(servers, local_hosts, 1)
    IN IF servers = <<>> THEN SelectionError("has no servers configured", <<>>)
       ELSE IF server_str = <<>> THEN Selected(servers[1])
       ELSE IF direct # 0 THEN Selected(servers[direct])
       ELSE IF Contains(server_str, ":") THEN
           SelectionError("must be a hostname without port", <<>>)
       ELSE IF Has(ssh) /\ server_str = ValueOf(ssh) /\ local # 0 THEN Selected(servers[local])
       ELSE SelectionError("not found", available_hosts(servers, ssh))

\* the connectors of the model: their endpoints, their tunnel, the selectors
HostDb == <<"d", "b">>
HostDb2 == <<"d", "b", "2">>
JumpHost == <<"j">>
JumpHost6 == <<"f", ":", ":", "2">>
EndpointHosts == {HostDb, HostDb2, Localhost, Loopback6}
EndpointPorts == {5432, 5433}
Endpoints == [host : EndpointHosts, port : EndpointPorts]
RECURSIVE ServerLists(_)
ServerLists(n) ==
    IF n = 0 THEN {}
    ELSE {<<e>> : e \in Endpoints}
         \cup {Append(l, e) : l \in ServerLists(n - 1), e \in Endpoints}
SshHosts == {Absent, <<JumpHost>>, <<HostDb>>, <<JumpHost6>>}
ServerSelectors ==
    {Absent, <<<<>>>>, <<<<" ">>>>, <<HostDb>>, <<<<" ">> \o HostDb2 \o <<" ">>>>, <<Localhost>>,
     <<Loopback6>>, <<JumpHost>>, <<JumpHost6>>, <<HostDb \o <<":", "5">>>>, <<<<"n", "o">>>>}

\* the ports of ClickHouse (HTTP, HTTPS, native, secure native) and another
ClickHousePorts == {8123, 8443, 9000, 9440, 9001}
PortEndpoints == [host : {HostDb, Localhost}, port : ClickHousePorts]

\* the type and the implementation of a connector of each kind
db_type(e) == IF IsPg(e) THEN "postgresql" ELSE "clickhouse"
implementation(e) == IF IsCli(e) THEN "cli" ELSE "python"

\* server.py list_connections: the port shown for an endpoint
effective_port(type, impl, port) ==
    IF type = "clickhouse" THEN
        IF impl = "python" THEN IF port = 9000 THEN 8123 ELSE IF port = 9440 THEN 8443 ELSE port
        ELSE IF port = 8123 THEN 9000 ELSE IF port = 8443 THEN 9440 ELSE port
    ELSE port

\* server.py list_connections: the servers column of one connector
list_connections(e, servers, ssh) ==
    [k \in 1..Len(servers) |->
        [host |-> display_host(servers[k], ssh),
         port |-> effective_port(db_type(e), implementation(e), servers[k].port)]]

\* clickhouse/cli.py: the native port clickhouse-client is given, as the
\* remote port of the tunnel and as the port of a direct connection
cli_native_port(port) == IF port = 8123 THEN 9000 ELSE IF port = 8443 THEN 9440 ELSE port

\* clickhouse/python.py _get_ssh_tunnel: the remote port of the tunnel
python_remote_port(port) == IF port = 9000 THEN 8123 ELSE IF port = 9440 THEN 8443 ELSE port

\* _execute_sync_query that connects to the secure native port as given
python_connect_port_native_tls(config_port, port, is_ssh_tunnel) ==
    IF is_ssh_tunnel THEN port
    ELSE IF config_port = 8123 THEN 8123
    ELSE IF config_port = 8443 THEN 8443
    ELSE IF config_port = 9000 THEN 8123
    ELSE port

\* clickhouse/python.py _execute_sync_query: the port the client connects to
python_connect_port(config_port, port, is_ssh_tunnel) ==
    IF is_ssh_tunnel THEN port
    ELSE IF config_port = 8123 THEN 8123
    ELSE IF config_port = 8443 THEN 8443
    ELSE IF config_port = 9000 THEN 8123
    ELSE IF config_port = 9440 THEN 8443
    ELSE port

\* the database endpoint a call reaches: the remote end of the tunnel when
\* the connector has one, the endpoint connected to otherwise
NoTarget == [via |-> "none", host |-> <<>>, port |-> 0]
database_endpoint(e, srv, ssh) ==
    IF Has(ssh) THEN
        [via |-> "tunnel", host |-> srv.host,
         port |-> IF e = "ch_cli" THEN cli_native_port(srv.port)
                  ELSE IF e = "ch_python" THEN python_remote_port(srv.port)
                  ELSE srv.port]
    ELSE
        [via |-> "direct", host |-> srv.host,
         port |-> IF e = "ch_cli" THEN cli_native_port(srv.port)
                  ELSE IF e = "ch_python" THEN python_connect_port(srv.port, srv.port, FALSE)
                  ELSE srv.port]

\* the local ports a tunnel may listen on: ssh_tunnel_cli.py binds port 0
\* and takes the port the system hands out
LocalPorts == {40001, 40002}

\* clickhouse/cli.py execute_query: the command line of clickhouse-client
\* for an endpoint, through the local port of a tunnel (local_port above 0)
\* or directly
NoCmd == [host |-> <<>>, port |-> 0, secure |-> FALSE, readonly |-> <<>>,
          max_execution_time |-> FALSE, connect_timeout |-> FALSE, format |-> ""]
clickhouse_client_cmd(srv, local_port) ==
    LET host == IF local_port # 0 THEN Loopback4 ELSE srv.host
        port == IF local_port # 0 THEN local_port ELSE cli_native_port(srv.port)
    IN  [host |-> host, port |-> port, secure |-> (port = 9440), readonly |-> <<"1">>,
         max_execution_time |-> TRUE, connect_timeout |-> TRUE,
         format |-> "TabSeparatedWithNames"]

SelectIdle ==
    /\ conn_servers = <<>>
    /\ ssh_host = Absent
    /\ server_arg = Absent
    /\ selected = NoSelection
    /\ listed = <<>>
    /\ connect_to = NoTarget
    /\ client_cmd = NoCmd

(***************************************************************************)
(* utils/ssh_tunnel.py and utils/ssh_tunnel_cli.py: one tunnel object of   *)
(* either implementation, the calls of start and stop made on it one after *)
(* the other, and for the in-process tunnel the executor thread that runs  *)
(* _start_sync under the lock of the object.                               *)
(***************************************************************************)
TunnelImpls == {"paramiko", "system_ssh"}
SshTimeouts == {DEFAULT_SSH_TIMEOUT, 3}

NewTunnel(impl, private_key, password, ssh_timeout) ==
    [impl |-> impl, private_key |-> private_key, password |-> password,
     ssh_timeout |-> ssh_timeout,
     ssh_client |-> FALSE, transport |-> FALSE, tunnel_thread |-> FALSE,
     ssh_process |-> FALSE, local_port |-> FALSE, stop_event |-> FALSE, lock |-> "free"]

NoTunnel == NewTunnel("none", FALSE, FALSE, 0)

NoTunnelCall == [op |-> "none", kind |-> "none", exc |-> "", prefix |-> "", text |-> ""]
Calling(op) == [NoTunnelCall EXCEPT !.op = op, !.kind = "pending"]
Returns(c) == [c EXCEPT !.kind = "return"]
Raises(c, exc, prefix, text) ==
    [c EXCEPT !.kind = "raise", !.exc = exc, !.prefix = prefix, !.text = text]

timeout_text(n) == "Connection timeout after " \o ToString(n) \o "s"

\* what can go wrong in _start_sync
StartSyncFailures(t) ==
    (IF t.private_key THEN {"key_unreadable"} ELSE {})
    \cup {"auth_rejected", "bad_host_key", "ssh_exception", "socket_timeout", "network_error",
          "os_error", "unexpected"}

\* _start_sync: the exception each failure becomes
start_sync_error(t, failure) ==
    CASE failure = "key_unreadable" ->
            Raises(Calling("start"), "ValueError", "", "Could not load SSH private key")
      [] failure = "auth_rejected" ->
            Raises(Calling("start"), "RuntimeError", "SSH:", "Authentication failed")
      [] failure = "bad_host_key" ->
            Raises(Calling("start"), "RuntimeError", "SSH:", "Host key verification failed")
      [] failure = "ssh_exception" -> Raises(Calling("start"), "RuntimeError", "SSH:", "")
      [] failure = "socket_timeout" ->
            Raises(Calling("start"), "TimeoutError", "SSH:", timeout_text(t.ssh_timeout))
      [] failure = "network_error" ->
            Raises(Calling("start"), "RuntimeError", "SSH:", "Network error")
      [] failure = "os_error" -> Raises(Calling("start"), "RuntimeError", "SSH:", "")
      [] OTHER -> Raises(Calling("start"), "RuntimeError", "SSH:", "Unexpected error")

\* _stop_sync once it holds the lock: the stop event, and every field
\* dropped
stop_sync_locked(t) ==
    [t EXCEPT !.stop_event = TRUE, !.ssh_client = FALSE, !.transport = FALSE,
              !.local_port = FALSE, !.tunnel_thread = FALSE]

\* _stop_sync when the lock is not had within its second: the stop event only
stop_sync_unlocked(t) == [t EXCEPT !.stop_event = TRUE]

\* CLISSHTunnel.stop: with a process, the process group is killed and the
\* process and the port are dropped; without one, nothing is done
cli_stop(t) ==
    IF t.ssh_process THEN [t EXCEPT !.ssh_process = FALSE, !.local_port = FALSE] ELSE t

\* what can happen to CLISSHTunnel._start_tunnel
StartTunnelOutcomes(t) ==
    (IF t.password /\ ~t.private_key THEN {"sshpass_missing"} ELSE {})
    \cup {"spawn_fails", "ssh_exits_denied", "ssh_exits", "slow", "ok"}

\* CLISSHTunnel.start: the tunnel object after the call, and what it gave
cli_start(t, outcome) ==
    LET found == [t EXCEPT !.local_port = TRUE]
        spawned == [found EXCEPT !.ssh_process = TRUE]
    IN IF t.ssh_process THEN
           [tunnel |-> t,
            call |-> Raises(Calling("start"), "RuntimeError", "", "SSH tunnel already running")]
       ELSE CASE outcome = "sshpass_missing" ->
                    [tunnel |-> found,
                     call |-> Raises(Calling("start"), "RuntimeError", "SSH:",
                                     "sshpass utility not found")]
              [] outcome = "spawn_fails" ->
                    [tunnel |-> cli_stop(found),
                     call |-> Raises(Calling("start"), "RuntimeError", "SSH:", "")]
              [] outcome = "ssh_exits_denied" ->
                    [tunnel |-> cli_stop(spawned),
                     call |-> Raises(Calling("start"), "RuntimeError", "SSH:",
                                     "Permission denied")]
              [] outcome = "ssh_exits" ->
                    [tunnel |-> cli_stop(spawned),
                     call |-> Raises(Calling("start"), "RuntimeError", "SSH:", "")]
              [] outcome = "slow" ->
                    [tunnel |-> cli_stop(spawned),
                     call |-> Raises(Calling("start"), "TimeoutError", "SSH:",
                                     timeout_text(t.ssh_timeout))]
              [] OTHER -> [tunnel |-> spawned, call |-> Returns(Calling("start"))]

TunnelObjIdle ==
    /\ tunnel_obj = NoTunnel
    /\ starter = "none"
    /\ tunnel_call = NoTunnelCall
    /\ tunnel_calls = 0

\* the calls a connector may have running at once
Calls == {"a", "b"}
NoTask == [pc |-> "idle", emitted |-> <<>>,
           returned |-> [kind |-> "none", exc |-> "", prefix |-> "", why |-> "", output |-> <<>>]]
NoFrame == [tunnel |-> "none", proc |-> "none", lines |-> <<>>, total_bytes |-> 0,
            truncated |-> FALSE]

PairIdle ==
    /\ tasks = [i \in Calls |-> NoTask]
    /\ frames = [i \in Calls |-> NoFrame]

NoiseIdle ==
    /\ stdout_line = <<>>
    /\ line_kept = ""

\* before any override: the ContextVar has its default in every context
OverrideIdle ==
    /\ limit_ctx = [i \in Calls |-> TRUE]
    /\ limit_tokens = [i \in Calls |-> <<>>]
    /\ cap_seen = [i \in Calls |-> <<>>]

NoAccount == [lines |-> <<>>, total_bytes |-> 0, truncated |-> FALSE, done |-> FALSE]
NoAccountInput == [header |-> "", rows |-> <<>>, max_bytes |-> 0]

AcctIdle ==
    /\ acct_input = NoAccountInput
    /\ acct_result = [e \in Executors |-> NoAccount]

UnitIdle == SelectIdle /\ TunnelObjIdle /\ PairIdle /\ NoiseIdle /\ OverrideIdle /\ AcctIdle

(***************************************************************************)
(* One execute_query call of an executor.                                  *)
(*                                                                         *)
(* pc is where the calling task stands: idle, tunnel_start (awaiting       *)
(* tunnel.start()), open (about to spawn the client or hand the query to   *)
(* the worker thread), read (CLI: awaiting a line), reap (CLI: awaiting    *)
(* process.wait()), await_worker (native: awaiting the worker thread's     *)
(* returned) and done (control is back with the caller).  The worker thread  *)
(* of a native executor runs _execute_sync_query on its own; it owns the   *)
(* driver connection.                                                      *)
(***************************************************************************)
NoCall == [query |-> <<>>, database |-> "", server |-> "", enforce_limit |-> TRUE]
NoReturn == [kind |-> "none", exc |-> "", prefix |-> "", why |-> "", output |-> <<>>]
Failure(exc, prefix, why) ==
    [kind |-> "error", exc |-> exc, prefix |-> prefix, why |-> why, output |-> <<>>]
Success(why, output) ==
    [kind |-> "ok", exc |-> "", prefix |-> "", why |-> why, output |-> output]

\* max_bytes of the streaming loops: the ClickHouse native executor asks
\* _effective_max_result_bytes, the other three read self.max_result_bytes
stream_max_bytes ==
    IF cfg.executor = "ch_python"
    THEN effective_max_result_bytes(call.enforce_limit, cfg.max_result_bytes)
    ELSE cfg.max_result_bytes

CliPrefix(e) == IF e = "pg_cli" THEN "psql:" ELSE "clickhouse-client:"
NativePrefix(e) == IF e = "pg_python" THEN "PostgreSQL:" ELSE "ClickHouse:"

\* postgresql/cli.py, clickhouse/cli.py: what the environment given to the
\* client holds of the session options: psql is given PGOPTIONS with
\* default_transaction_read_only=on, clickhouse-client nothing of the kind
client_env(e) == [PGOPTIONS |-> e = "pg_cli"]

\* what a client that exits with an error says on stderr: a server that does
\* not take the session option refuses the startup, before any output
ClientErrors(environ, ls) ==
    {"backend_error"} \cup (IF environ.PGOPTIONS /\ ls = <<>> THEN {"option_rejected"} ELSE {})

\* how tunnel.start() fails with RuntimeError: with the message
\* "SSH: Authentication failed - ...", or with another "SSH: ..." message
StartErrors == {"auth", "other"}

\* _get_ssh_tunnel of the ClickHouse native executor that tries the system
\* ssh tunnel after any RuntimeError of the in-process one
falls_back_on_any_error(e, impl, failure) == e = "ch_python" /\ impl = "paramiko"

\* clickhouse/python.py _get_ssh_tunnel: the failure of the in-process
\* tunnel after which the system ssh tunnel is tried
falls_back(e, impl, failure) == e = "ch_python" /\ impl = "paramiko" /\ failure = "auth"

\* the task leaves execute_query with r; leaving the `async with` block
\* stops the tunnel it holds
Leave(r) ==
    /\ pc' = "done"
    /\ returned' = r
    /\ tunnel' = IF tunnel = "up" THEN "stopped" ELSE tunnel

ExecIdle ==
    /\ call = NoCall
    /\ pc = "idle"
    /\ target = ""
    /\ db_name = ""
    /\ tunnel = "none"
    /\ tunnel_impl = "none"
    /\ start_error = ""
    /\ spawn_env = <<>>
    /\ proc = "none"
    /\ kills = 0
    /\ conn = "none"
    /\ worker = "none"
    /\ lines = <<>>
    /\ total_bytes = 0
    /\ truncated = FALSE
    /\ nread = 0
    /\ emitted = <<>>
    /\ returned = NoReturn

Init ==
    /\ cfg \in [executor : Executors, ssh : BOOLEAN, max_result_bytes : CapValues]
    /\ ExecIdle
    /\ GuardIdle
    /\ TimeoutIdle
    /\ ConfigIdle
    /\ FileIdle
    /\ UnitIdle

\* execute_query up to its first suspension point: the psql executor's
\* guard, the choice of the endpoint, the tunnel object
ExecuteQuery ==
    /\ pc = "idle"
    /\ \E q \in ExecQueries, d \in DatabaseArgs, s \in ServerArgs, enforce \in BOOLEAN :
        LET e == cfg.executor
            \* the PostgreSQL executors take no server argument
            sel == IF IsPg(e) THEN select_server("", cfg.ssh) ELSE select_server(s, cfg.ssh)
        IN
        /\ call' = [query |-> q, database |-> d, server |-> s, enforce_limit |-> enforce]
        /\ IF e = "pg_cli" /\ ~prepare_user_query(q).ok THEN
               /\ Leave(Failure("ValueError", "", "guard"))
               /\ UNCHANGED <<target, tunnel_impl, start_error, spawn_env>>
           ELSE IF ~sel.ok THEN
               /\ Leave(Failure("ValueError", "", "server_not_found"))
               /\ UNCHANGED <<target, tunnel_impl, start_error, spawn_env>>
           ELSE IF cfg.ssh THEN
               /\ target' = sel.host
               /\ tunnel' = "starting"
               /\ tunnel_impl' = IF IsCli(e) THEN "system_ssh" ELSE "paramiko"
               /\ pc' = "tunnel_start"
               /\ UNCHANGED <<returned, start_error, spawn_env>>
           ELSE
               /\ target' = sel.host
               /\ pc' = "open"
               /\ UNCHANGED <<tunnel, tunnel_impl, start_error, spawn_env, returned>>
    /\ UNCHANGED <<cfg, db_name, resVars, streamVars, guardVars, timeoutVars, configVars, fileVars, unitVars>>

\* tunnel.start() returns the local port
TunnelStarted ==
    /\ pc = "tunnel_start"
    /\ tunnel' = "up"
    /\ pc' = "open"
    /\ UNCHANGED <<cfg, call, target, db_name, tunnel_impl, start_error, spawn_env, returned, resVars, streamVars,
                   guardVars, timeoutVars, configVars, fileVars, unitVars>>

\* ClickHouse native: the in-process tunnel fails to authenticate and the
\* system ssh tunnel is tried instead
TunnelAuthFallback ==
    /\ pc = "tunnel_start"
    /\ \E f \in StartErrors :
        /\ falls_back(cfg.executor, tunnel_impl, f)
        /\ start_error' = f
    /\ tunnel_impl' = "system_ssh"
    /\ UNCHANGED <<cfg, call, pc, target, db_name, tunnel, returned, spawn_env, resVars, streamVars,
                   guardVars, timeoutVars, configVars, fileVars, unitVars>>

\* tunnel.start() raises RuntimeError("SSH: ..."); the tunnel cleans up
TunnelStartFails ==
    /\ pc = "tunnel_start"
    /\ \E f \in StartErrors :
        /\ ~falls_back(cfg.executor, tunnel_impl, f)
        /\ start_error' = f
    /\ pc' = "done"
    /\ tunnel' = "stopped"
    /\ returned' = Failure("RuntimeError", "SSH:", "ssh_error")
    /\ UNCHANGED <<cfg, call, target, db_name, tunnel_impl, spawn_env, resVars, streamVars,
                   guardVars, timeoutVars, configVars, fileVars, unitVars>>

\* tunnel.start() runs into ssh_timeout.  The system ssh tunnel is stopped;
\* the in-process one is stopped only if _stop_sync gets the lock the
\* starting thread holds
TunnelStartTimeout ==
    /\ pc = "tunnel_start"
    /\ pc' = "done"
    /\ \E t \in (IF tunnel_impl = "paramiko" THEN {"stopped", "starting"} ELSE {"stopped"}) :
        tunnel' = t
    /\ returned' = Failure("TimeoutError", "SSH:", "ssh_timeout")
    /\ start_error' = "timeout"
    /\ UNCHANGED <<cfg, call, target, db_name, tunnel_impl, spawn_env, resVars, streamVars,
                   guardVars, timeoutVars, configVars, fileVars, unitVars>>

\* CLI: create_subprocess_exec starts psql / clickhouse-client
SpawnProcess ==
    /\ pc = "open"
    /\ IsCli(cfg.executor)
    /\ db_name' = database_or_default(call.database)
    /\ proc' = "running"
    /\ UNCHANGED kills
    /\ spawn_env' = Append(spawn_env, client_env(cfg.executor))
    /\ pc' = "read"
    /\ UNCHANGED <<cfg, call, target, tunnel, tunnel_impl, start_error, conn, worker, returned, streamVars,
                   guardVars, timeoutVars, configVars, fileVars, unitVars>>

\* CLI: the client binary is not installed
ToolMissing ==
    /\ pc = "open"
    /\ IsCli(cfg.executor)
    /\ Leave(Failure("FileNotFoundError", CliPrefix(cfg.executor), "missing_tool"))
    /\ UNCHANGED <<cfg, call, target, db_name, tunnel_impl, start_error, spawn_env, resVars, streamVars,
                   guardVars, timeoutVars, configVars, fileVars, unitVars>>

\* CLI: one line read from the client's stdout
ReadLine ==
    /\ pc = "read"
    /\ nread < MaxLines
    /\ \E line \in BackendLines(cfg.max_result_bytes), is_row \in BOOLEAN :
        LET r == append_line(lines, total_bytes, line, stream_max_bytes) IN
        \* psql alone prints status lines between the rows
        /\ ~is_row => (cfg.executor = "pg_cli" /\ line \in PsqlStatusWords)
        /\ emitted' = IF is_row THEN Append(emitted, line) ELSE emitted
        /\ IF cfg.executor = "pg_cli" /\ is_status_noise(line) THEN
               UNCHANGED <<lines, total_bytes, truncated, pc, proc, kills>>
           ELSE
               /\ lines' = r.lines
               /\ total_bytes' = r.total_bytes
               /\ truncated' = r.truncated
               /\ pc' = IF r.truncated THEN "reap" ELSE "read"
               /\ proc' = IF r.truncated /\ proc = "running" THEN "killed" ELSE proc
               /\ kills' = IF r.truncated /\ proc = "running" THEN kills + 1 ELSE kills
    /\ nread' = nread + 1
    /\ UNCHANGED <<cfg, call, target, db_name, tunnel, tunnel_impl, start_error, spawn_env, conn, worker, returned,
                   guardVars, timeoutVars, configVars, fileVars, unitVars>>

\* CLI: the client closed its stdout
ReadEof ==
    /\ pc = "read"
    /\ pc' = "reap"
    /\ UNCHANGED <<cfg, call, target, db_name, tunnel, tunnel_impl, start_error, spawn_env, returned, resVars, streamVars,
                   guardVars, timeoutVars, configVars, fileVars, unitVars>>

\* CLI: no line arrived before the read deadline; the client is killed
ReadTimeout ==
    /\ pc = "read"
    /\ proc' = "killed"
    /\ kills' = kills + 1
    /\ Leave(IF cfg.executor = "pg_cli"
             THEN Failure("RuntimeError", "psql:", "query_timeout")
             ELSE Failure("TimeoutError", "clickhouse-client:", "query_timeout"))
    /\ UNCHANGED <<cfg, call, target, db_name, tunnel_impl, start_error, spawn_env, conn, worker, streamVars,
                   guardVars, timeoutVars, configVars, fileVars, unitVars>>

\* CLI: process.wait() returns, the exit status decides, the text is built
ReapProcess ==
    /\ pc = "reap"
    /\ proc' = "exited"
    /\ UNCHANGED kills
    /\ \E returncode \in {0, 1}, stderr \in ClientErrors(spawn_env[Len(spawn_env)], lines) :
        Leave(IF returncode # 0 /\ ~truncated
              THEN Failure("RuntimeError", CliPrefix(cfg.executor), stderr)
              ELSE Success(IF truncated THEN "truncated" ELSE "rows_exhausted",
                           final_output(cfg.executor, lines, truncated, cfg.max_result_bytes)))
    /\ UNCHANGED <<cfg, call, target, db_name, tunnel_impl, start_error, spawn_env, conn, worker, streamVars,
                   guardVars, timeoutVars, configVars, fileVars, unitVars>>

\* native: _execute_sync_query is handed to the worker pool and awaited
\* under the combined timeout
SubmitToWorker ==
    /\ pc = "open"
    /\ ~IsCli(cfg.executor)
    /\ db_name' = database_or_default(call.database)
    /\ worker' = "connect"
    /\ pc' = "await_worker"
    /\ UNCHANGED <<cfg, call, target, tunnel, tunnel_impl, start_error, spawn_env, proc, kills, conn, returned, streamVars,
                   guardVars, timeoutVars, configVars, fileVars, unitVars>>

\* worker thread: the driver connects and runs the query
WorkerConnect ==
    /\ worker = "connect"
    /\ conn' = "open"
    /\ worker' = "fetch"
    /\ UNCHANGED <<cfg, call, pc, target, db_name, tunnel, tunnel_impl, start_error, spawn_env, proc, kills, returned, streamVars,
                   guardVars, timeoutVars, configVars, fileVars, unitVars>>

\* worker thread: the driver cannot connect
WorkerConnectFails ==
    /\ worker = "connect"
    /\ worker' = "db_error"
    /\ UNCHANGED <<cfg, call, pc, target, db_name, tunnel, tunnel_impl, start_error, spawn_env, proc, kills, conn, returned,
                   streamVars, guardVars, timeoutVars, configVars, fileVars, unitVars>>

\* worker thread: the header or a row goes through append_line.  A refusal
\* ends _execute_sync_query and its finally closes the connection; the
\* PostgreSQL executor ignores what append_line answers for the header
WorkerAppendLine ==
    /\ worker = "fetch"
    /\ nread < MaxLines
    /\ \E line \in BackendLines(cfg.max_result_bytes) :
        LET r == append_line(lines, total_bytes, line, stream_max_bytes)
            goes_on == ~r.truncated \/ (cfg.executor = "pg_python" /\ lines = <<>>)
        IN
        /\ lines' = r.lines
        /\ total_bytes' = r.total_bytes
        /\ truncated' = r.truncated
        /\ worker' = IF goes_on THEN "fetch" ELSE "ok"
        /\ conn' = IF goes_on THEN conn ELSE "closed"
        /\ emitted' = Append(emitted, line)
    /\ nread' = nread + 1
    /\ UNCHANGED <<cfg, call, pc, target, db_name, tunnel, tunnel_impl, start_error, spawn_env, proc, kills, returned,
                   guardVars, timeoutVars, configVars, fileVars, unitVars>>

\* worker thread: no rows are left
WorkerRowsExhausted ==
    /\ worker = "fetch"
    /\ worker' = "ok"
    /\ conn' = "closed"
    /\ UNCHANGED <<cfg, call, pc, target, db_name, tunnel, tunnel_impl, start_error, spawn_env, proc, kills, returned, streamVars,
                   guardVars, timeoutVars, configVars, fileVars, unitVars>>

\* worker thread: the backend refuses the query, or cancels it at the
\* statement timeout
WorkerQueryFails ==
    /\ worker = "fetch"
    /\ lines = <<>>
    /\ \E how \in {"db_error", "query_canceled"} : worker' = how
    /\ conn' = "closed"
    /\ UNCHANGED <<cfg, call, pc, target, db_name, tunnel, tunnel_impl, start_error, spawn_env, proc, kills, returned, streamVars,
                   guardVars, timeoutVars, configVars, fileVars, unitVars>>

\* native: the worker's answer reaches the task
AwaitWorker ==
    /\ pc = "await_worker"
    /\ worker \in {"ok", "db_error", "query_canceled"}
    /\ Leave(IF worker = "ok"
             THEN Success(IF truncated THEN "truncated" ELSE "rows_exhausted",
                          final_output(cfg.executor, lines, truncated, cfg.max_result_bytes))
             ELSE IF worker = "query_canceled" /\ cfg.executor = "pg_python"
             THEN Failure("TimeoutError", "PostgreSQL:", "query_timeout")
             ELSE Failure("RuntimeError", NativePrefix(cfg.executor), "backend_error"))
    /\ UNCHANGED <<cfg, call, target, db_name, tunnel_impl, start_error, spawn_env, resVars, streamVars,
                   guardVars, timeoutVars, configVars, fileVars, unitVars>>

\* native: asyncio.wait_for gives up after connection_timeout +
\* query_timeout; the worker thread is not stopped
CombinedTimeout ==
    /\ pc = "await_worker"
    /\ worker \in {"connect", "fetch"}
    /\ Leave(Failure("TimeoutError", NativePrefix(cfg.executor), "query_timeout"))
    /\ UNCHANGED <<cfg, call, target, db_name, tunnel_impl, start_error, spawn_env, resVars, streamVars,
                   guardVars, timeoutVars, configVars, fileVars, unitVars>>

\* with_hard_timeout's deadline expires: the task is cancelled at the await
\* it stands at and the caller gets HardTimeoutError.  CancelledError passes
\* the executors' `except Exception` handlers; only the `async with` of the
\* tunnel reacts, and only once tunnel.start() has returned
HardDeadline ==
    /\ pc \in {"tunnel_start", "read", "reap", "await_worker"} \/ (pc = "open" /\ IsCli(cfg.executor))
    /\ pc' = "done"
    /\ returned' = Failure("HardTimeoutError", "", "cancelled")
    /\ IF pc = "tunnel_start"
       THEN \E t \in (IF tunnel_impl = "system_ssh" THEN {"none", "starting"} ELSE {"starting"}) :
                tunnel' = t
       ELSE tunnel' = IF tunnel = "up" THEN "stopped" ELSE tunnel
    /\ UNCHANGED <<cfg, call, target, db_name, tunnel_impl, start_error, spawn_env, resVars, streamVars,
                   guardVars, timeoutVars, configVars, fileVars, unitVars>>

Next ==
    \/ ExecuteQuery
    \/ TunnelStarted
    \/ TunnelAuthFallback
    \/ TunnelStartFails
    \/ TunnelStartTimeout
    \/ SpawnProcess
    \/ ToolMissing
    \/ ReadLine
    \/ ReadEof
    \/ ReadTimeout
    \/ ReapProcess
    \/ SubmitToWorker
    \/ WorkerConnect
    \/ WorkerConnectFails
    \/ WorkerAppendLine
    \/ WorkerRowsExhausted
    \/ WorkerQueryFails
    \/ AwaitWorker
    \/ CombinedTimeout
    \/ HardDeadline

Spec == Init /\ [][Next]_vars

TimeoutInit ==
    /\ \E o \in CoroOutcomes, n \in 1..MaxSeconds :
        coro = [exc |-> o.exc, prefix |-> o.prefix, duration |-> n]
    /\ timeout_seconds \in 1..MaxSeconds
    /\ elapsed = 0
    /\ hard_result = NoHardResult
    /\ cfg = [executor |-> "pg_cli", ssh |-> FALSE, max_result_bytes |-> 0]
    /\ ExecIdle
    /\ GuardIdle
    /\ ConfigIdle
    /\ FileIdle
    /\ UnitIdle

\* time passes while asyncio.wait_for waits
Tick ==
    /\ hard_result.kind = "none"
    /\ elapsed < coro.duration
    /\ elapsed < timeout_seconds
    /\ elapsed' = elapsed + 1
    /\ UNCHANGED <<coro, timeout_seconds, hard_result, guardVars, execVars, configVars, fileVars, unitVars>>

\* the operation ends before the deadline cancels it: its value is
\* returned; its exception passes through the except clauses, of which the
\* first takes every TimeoutError and lets it pass only with one of the
\* backend prefixes in its message
CoroFinishes ==
    /\ hard_result.kind = "none"
    /\ elapsed = coro.duration
    /\ hard_result' =
        IF coro.exc = "" THEN [kind |-> "ok", exc |-> "", prefix |-> "", at |-> elapsed]
        ELSE IF coro.exc = "TimeoutError" /\ coro.prefix \notin BackendPrefixes THEN
            [kind |-> "error", exc |-> "HardTimeoutError", prefix |-> "", at |-> elapsed]
        ELSE [kind |-> "error", exc |-> coro.exc, prefix |-> coro.prefix, at |-> elapsed]
    /\ UNCHANGED <<coro, timeout_seconds, elapsed, guardVars, execVars, configVars, fileVars, unitVars>>

\* the deadline expires first: asyncio.wait_for cancels the operation and
\* raises a TimeoutError without a message
DeadlineExpires ==
    /\ hard_result.kind = "none"
    /\ elapsed = timeout_seconds
    /\ hard_result' = [kind |-> "error", exc |-> "HardTimeoutError", prefix |-> "", at |-> elapsed]
    /\ UNCHANGED <<coro, timeout_seconds, elapsed, guardVars, execVars, configVars, fileVars, unitVars>>

TimeoutNext == Tick \/ CoroFinishes \/ DeadlineExpires

SpecTimeout == TimeoutInit /\ [][TimeoutNext]_vars

(***************************************************************************)
(* The guard applied to bounded inputs.                                    *)
(***************************************************************************)
\* the pieces guard inputs are built from
GuardPieces ==
    { <<"'">>, <<"\"">>, <<";">>, <<"$">>, <<"a">>, <<"\n">>,
      <<"-", "-">>, <<"/", "*">>, <<"*", "/">>, <<"E", "'">>, <<"\\", "'">>,
      <<"$", "a", "$">> }

IdleConfig == [executor |-> "pg_cli", ssh |-> FALSE, max_result_bytes |-> 0]

GuardInit ==
    /\ query = <<>>
    /\ verdict = NoVerdict
    /\ cfg = IdleConfig
    /\ ExecIdle
    /\ TimeoutIdle
    /\ ConfigIdle
    /\ FileIdle
    /\ UnitIdle

AppendPiece ==
    /\ verdict = NoVerdict
    /\ \E p \in GuardPieces :
        /\ Len(query) < MaxPieces
        /\ query' = Append(query, p)
    /\ UNCHANGED <<verdict, execVars, timeoutVars, configVars, fileVars, unitVars>>

SanitizeReadOnlySql ==
    /\ verdict = NoVerdict
    /\ verdict' = sanitize_read_only_sql(QueryText)
    /\ UNCHANGED <<query, execVars, timeoutVars, configVars, fileVars, unitVars>>

PrepareUserQuery ==
    /\ verdict = NoVerdict
    /\ verdict' = prepare_user_query(QueryText)
    /\ UNCHANGED <<query, execVars, timeoutVars, configVars, fileVars, unitVars>>

GuardNext == AppendPiece \/ SanitizeReadOnlySql \/ PrepareUserQuery

SpecGuard == GuardInit /\ [][GuardNext]_vars

(***************************************************************************)
(* The guard applied to queries that open with keywords: a lead of         *)
(* whitespace, a phrase of keywords in some letter case with some          *)
(* whitespace between them, and a tail.                                    *)
(***************************************************************************)
W_SELECT == <<"S","E","L","E","C","T">>
W_COMMITTED == <<"C","O","M","M","I","T","T","E","D">>

Lower(c) ==
    IF \E k \in 1..26 : UpperLetters[k] = c
    THEN LowerLetters[CHOOSE k \in 1..26 : UpperLetters[k] = c]
    ELSE c

LetterCases == {"upper", "lower", "capitalised"}

InCase(w, case) ==
    [k \in 1..Len(w) |->
        IF case = "upper" \/ (case = "capitalised" /\ k = 1) THEN w[k] ELSE Lower(w[k])]

RECURSIVE JoinKeywords(_, _, _)
JoinKeywords(kws, sep, case) ==
    IF Len(kws) = 1 THEN InCase(Head(kws), case)
    ELSE InCase(Head(kws), case) \o sep \o JoinKeywords(Tail(kws), sep, case)

VerbLeads == {<<>>, <<" ">>, <<"\n", "\t">>}
VerbSeparators == {<<" ">>, <<"\t", "\n">>}
OtherPhrases == {<<W_SELECT>>, <<W_COMMITTED>>, <<W_SET>>, <<W_PREPARE>>, <<W_RELEASE>>, <<W_START>>}
VerbPhrases == {TRANSACTION_PREFIX[a] : a \in 1..Len(TRANSACTION_PREFIX)} \cup OtherPhrases
VerbTails ==
    { <<>>, <<";">>, <<" ", "x">>, <<"x">>, <<";", "x">>, <<" ", ";", " ">>,
      <<"/", "*", "*", "/">>, <<"-", "-">>,
      <<" ", "'", "E", "N", "D", "'">>, <<" ", "'", "E", "N", "D", ";", "'", ";", "-", "-", ";">> }

VerbQueries ==
    { <<lead \o JoinKeywords(ph, sep, case) \o tail>> :
        lead \in VerbLeads, ph \in VerbPhrases, sep \in VerbSeparators,
        case \in LetterCases, tail \in VerbTails }

VerbInit ==
    /\ query \in VerbQueries
    /\ verdict = NoVerdict
    /\ cfg = IdleConfig
    /\ ExecIdle
    /\ TimeoutIdle
    /\ ConfigIdle
    /\ FileIdle
    /\ UnitIdle

VerbNext == SanitizeReadOnlySql \/ PrepareUserQuery

SpecVerb == VerbInit /\ [][VerbNext]_vars

(***************************************************************************)
(* Loading the configuration: a file of several plain records, or a file   *)
(* of one record in which one group of keys takes every value of the       *)
(* model, under every environment.                                         *)
(***************************************************************************)
ConfigInit ==
    /\ \/ /\ raw_configs \in FilesOf(MaxRecords)
          /\ env = NoEnv
       \/ /\ raw_configs \in {<<r>> : r \in PasswordRecords \cup DatabaseRecords
                                          \cup TimeoutRecords \cup LimitRecords
                                          \cup TimeoutValueRecords}
          /\ env \in Envs
    /\ loaded = NoLoad
    /\ connectors = <<>>
    /\ cfg = IdleConfig
    /\ ExecIdle
    /\ GuardIdle
    /\ TimeoutIdle
    /\ FileIdle
    /\ UnitIdle

\* load_connections(yaml_path, env)
LoadConnections ==
    /\ loaded = NoLoad
    /\ loaded' = load_connections(raw_configs, env)
    /\ UNCHANGED <<env, raw_configs, connectors, guardVars, execVars, timeoutVars, fileVars, unitVars>>

\* the service builds one connector for each connection of the registry
BuildConnectors ==
    /\ loaded.status = "ok"
    /\ connectors = <<>>
    /\ connectors' = [k \in 1..Len(loaded.connections) |-> BaseConnector(loaded.connections[k])]
    /\ UNCHANGED <<env, raw_configs, loaded, guardVars, execVars, timeoutVars, fileVars, unitVars>>

ConfigNext == LoadConnections \/ BuildConnectors

SpecConfig == ConfigInit /\ [][ConfigNext]_vars

(***************************************************************************)
(* Calls of run_query_read_only with and without a file_path, on every     *)
(* file system of the model.                                               *)
(***************************************************************************)
FileInit ==
    /\ fs \in InitialFs
    /\ tool_return = NoToolReturn
    /\ UnitIdle
    /\ cfg = IdleConfig
    /\ ExecIdle
    /\ GuardIdle
    /\ TimeoutIdle
    /\ ConfigIdle

RunQueryReadOnly ==
    /\ \E file_path \in {Absent} \cup {<<a>> : a \in FilePathArgs}, outcome \in QueryOutcomes :
        LET r == run_query_read_only(fs, file_path, outcome) IN
        /\ fs' = r.fs
        /\ tool_return' = r.ret
    /\ UNCHANGED <<guardVars, execVars, timeoutVars, configVars, unitVars>>

FileNext == RunQueryReadOnly

SpecFile == FileInit /\ [][FileNext]_vars

(***************************************************************************)
(* Endpoint selection: a connector of some endpoints, tunnelled or not,    *)
(* is asked for a server.                                                  *)
(***************************************************************************)
SelectInit ==
    /\ \/ /\ conn_servers \in ServerLists(MaxServers)
          /\ ssh_host \in SshHosts
          /\ server_arg \in ServerSelectors
          /\ cfg = [IdleConfig EXCEPT !.ssh = Has(ssh_host)]
       \/ /\ conn_servers \in {<<e>> : e \in PortEndpoints}
          /\ ssh_host \in {Absent, <<JumpHost>>}
          /\ server_arg = Absent
          /\ cfg \in {[IdleConfig EXCEPT !.executor = e, !.ssh = Has(ssh_host)] :
                         e \in Executors}
    /\ selected = NoSelection
    /\ listed = <<>>
    /\ connect_to = NoTarget
    /\ client_cmd = NoCmd
    /\ ExecIdle
    /\ GuardIdle
    /\ TimeoutIdle
    /\ ConfigIdle
    /\ FileIdle
    /\ TunnelObjIdle
    /\ PairIdle
    /\ NoiseIdle
    /\ OverrideIdle
    /\ AcctIdle

SelectServer ==
    /\ selected = NoSelection
    /\ selected' = BaseConnector_select_server(conn_servers, ssh_host, server_arg)
    /\ UNCHANGED <<conn_servers, ssh_host, server_arg, listed, connect_to, client_cmd, guardVars,
                   execVars, timeoutVars, configVars, fileVars, tunnelObjVars,
                   pairVars, noiseVars, overrideVars, acctVars>>

\* an executor reaches the endpoint selected for the call
ConnectTarget ==
    /\ selected.kind = "return"
    /\ connect_to = NoTarget
    /\ connect_to' = database_endpoint(cfg.executor, selected.server, ssh_host)
    /\ IF cfg.executor = "ch_cli"
       THEN \E local_port \in (IF Has(ssh_host) THEN LocalPorts ELSE {0}) :
                client_cmd' = clickhouse_client_cmd(selected.server, local_port)
       ELSE client_cmd' = NoCmd
    /\ UNCHANGED <<conn_servers, ssh_host, server_arg, selected, listed, guardVars,
                   execVars, timeoutVars, configVars, fileVars, tunnelObjVars,
                   pairVars, noiseVars, overrideVars, acctVars>>

ListConnections ==
    /\ listed = <<>>
    /\ listed' = list_connections(cfg.executor, conn_servers, ssh_host)
    /\ UNCHANGED <<conn_servers, ssh_host, server_arg, selected, connect_to, client_cmd, guardVars,
                   execVars, timeoutVars, configVars, fileVars, tunnelObjVars,
                   pairVars, noiseVars, overrideVars, acctVars>>

SelectNext == SelectServer \/ ConnectTarget \/ ListConnections

SpecSelect == SelectInit /\ [][SelectNext]_vars

(***************************************************************************)
(* A tunnel object and the calls made on it.                               *)
(***************************************************************************)
TunnelInit ==
    /\ tunnel_obj \in {NewTunnel(i, k, p, n) :
                          i \in TunnelImpls, k \in BOOLEAN, p \in BOOLEAN, n \in SshTimeouts}
    /\ tunnel_obj.private_key \/ tunnel_obj.password
    /\ starter = "none"
    /\ tunnel_call = NoTunnelCall
    /\ tunnel_calls = 0
    /\ cfg = IdleConfig
    /\ ExecIdle
    /\ GuardIdle
    /\ TimeoutIdle
    /\ ConfigIdle
    /\ FileIdle
    /\ SelectIdle
    /\ PairIdle
    /\ NoiseIdle
    /\ OverrideIdle
    /\ AcctIdle

NoCallRunning == tunnel_call.kind \in {"none", "return", "raise"}

\* SSHTunnel.start: _start_sync is handed to an executor thread and awaited
TunnelStart ==
    /\ tunnel_obj.impl = "paramiko"
    /\ NoCallRunning
    /\ starter = "none"
    /\ tunnel_calls < MaxTunnelCalls
    /\ tunnel_calls' = tunnel_calls + 1
    /\ tunnel_call' = Calling("start")
    /\ starter' = "queued"
    /\ UNCHANGED <<tunnel_obj, guardVars, execVars, timeoutVars, configVars, fileVars,
                   selectVars, pairVars, noiseVars, overrideVars, acctVars>>

\* _start_sync takes the lock: an active tunnel gives its port at once,
\* otherwise the SSH client is made and the handshake begins
StartSyncBegins ==
    /\ starter = "queued"
    /\ tunnel_obj.lock = "free"
    /\ IF tunnel_obj.ssh_client /\ tunnel_obj.transport
       THEN /\ starter' = "none"
            /\ tunnel_call' = IF tunnel_call = Calling("start") THEN Returns(tunnel_call)
                              ELSE tunnel_call
            /\ UNCHANGED tunnel_obj
       ELSE /\ starter' = "connecting"
            /\ tunnel_obj' = [tunnel_obj EXCEPT !.lock = "starter", !.ssh_client = TRUE]
            /\ UNCHANGED tunnel_call
    /\ UNCHANGED <<tunnel_calls, guardVars, execVars, timeoutVars, configVars, fileVars,
                   selectVars, pairVars, noiseVars, overrideVars, acctVars>>

\* _start_sync fails: its own _stop_sync cannot take the lock the thread
\* holds, so only the stop event is set; the waiting caller gets the error
StartSyncFails ==
    /\ starter = "connecting"
    /\ \E failure \in StartSyncFailures(tunnel_obj) :
        tunnel_call' = IF tunnel_call = Calling("start")
                       THEN start_sync_error(tunnel_obj, failure) ELSE tunnel_call
    /\ tunnel_obj' = [stop_sync_unlocked(tunnel_obj) EXCEPT !.lock = "free"]
    /\ starter' = "none"
    /\ UNCHANGED <<tunnel_calls, guardVars, execVars, timeoutVars, configVars, fileVars,
                   selectVars, pairVars, noiseVars, overrideVars, acctVars>>

\* _start_sync connects, takes a local port and starts the forwarder thread
StartSyncEstablishes ==
    /\ starter = "connecting"
    /\ tunnel_obj' = [tunnel_obj EXCEPT !.transport = TRUE, !.local_port = TRUE,
                                        !.tunnel_thread = TRUE, !.stop_event = FALSE,
                                        !.lock = "free"]
    /\ tunnel_call' = IF tunnel_call = Calling("start") THEN Returns(tunnel_call)
                      ELSE tunnel_call
    /\ starter' = "none"
    /\ UNCHANGED <<tunnel_calls, guardVars, execVars, timeoutVars, configVars, fileVars,
                   selectVars, pairVars, noiseVars, overrideVars, acctVars>>

\* SSHTunnel.start: ssh_timeout passes before _start_sync ends, and start
\* goes to _stop_sync; a _start_sync that has not begun is cancelled, one
\* that runs cannot be
StartTimesOut ==
    /\ tunnel_call = Calling("start")
    /\ starter \in {"queued", "connecting"}
    /\ starter' = IF starter = "queued" THEN "none" ELSE starter
    /\ tunnel_call' = [tunnel_call EXCEPT !.kind = "stopping"]
    /\ UNCHANGED <<tunnel_obj, tunnel_calls, guardVars, execVars, timeoutVars,
                   configVars, fileVars, selectVars, pairVars, noiseVars, overrideVars, acctVars>>

\* SSHTunnel.stop: _stop_sync is run
TunnelStop ==
    /\ tunnel_obj.impl = "paramiko"
    /\ NoCallRunning
    /\ tunnel_calls < MaxTunnelCalls
    /\ tunnel_calls' = tunnel_calls + 1
    /\ tunnel_call' = [Calling("stop") EXCEPT !.kind = "stopping"]
    /\ UNCHANGED <<tunnel_obj, starter, guardVars, execVars, timeoutVars, configVars,
                   fileVars, selectVars, pairVars, noiseVars, overrideVars, acctVars>>

\* what the call in _stop_sync gives once _stop_sync is over
AfterStopSync ==
    IF tunnel_call.op = "start"
    THEN Raises(Calling("start"), "TimeoutError", "SSH:", timeout_text(tunnel_obj.ssh_timeout))
    ELSE Returns(Calling("stop"))

\* _stop_sync gets the lock within its second
StopSyncLocked ==
    /\ tunnel_call.kind = "stopping"
    /\ tunnel_obj.lock = "free"
    /\ tunnel_obj' = stop_sync_locked(tunnel_obj)
    /\ tunnel_call' = AfterStopSync
    /\ UNCHANGED <<starter, tunnel_calls, guardVars, execVars, timeoutVars, configVars,
                   fileVars, selectVars, pairVars, noiseVars, overrideVars, acctVars>>

\* _stop_sync does not get the lock: _start_sync still holds it
StopSyncUnlocked ==
    /\ tunnel_call.kind = "stopping"
    /\ tunnel_obj.lock = "starter"
    /\ tunnel_obj' = stop_sync_unlocked(tunnel_obj)
    /\ tunnel_call' = AfterStopSync
    /\ UNCHANGED <<starter, tunnel_calls, guardVars, execVars, timeoutVars, configVars,
                   fileVars, selectVars, pairVars, noiseVars, overrideVars, acctVars>>

CliTunnelStart ==
    /\ tunnel_obj.impl = "system_ssh"
    /\ NoCallRunning
    /\ tunnel_calls < MaxTunnelCalls
    /\ tunnel_calls' = tunnel_calls + 1
    /\ \E outcome \in StartTunnelOutcomes(tunnel_obj) :
        /\ tunnel_obj' = cli_start(tunnel_obj, outcome).tunnel
        /\ tunnel_call' = cli_start(tunnel_obj, outcome).call
    /\ UNCHANGED <<starter, guardVars, execVars, timeoutVars, configVars, fileVars,
                   selectVars, pairVars, noiseVars, overrideVars, acctVars>>

CliTunnelStop ==
    /\ tunnel_obj.impl = "system_ssh"
    /\ NoCallRunning
    /\ tunnel_calls < MaxTunnelCalls
    /\ tunnel_calls' = tunnel_calls + 1
    /\ tunnel_obj' = cli_stop(tunnel_obj)
    /\ tunnel_call' = Returns(Calling("stop"))
    /\ UNCHANGED <<starter, guardVars, execVars, timeoutVars, configVars, fileVars,
                   selectVars, pairVars, noiseVars, overrideVars, acctVars>>

TunnelNext ==
    \/ TunnelStart
    \/ StartSyncBegins
    \/ StartSyncFails
    \/ StartSyncEstablishes
    \/ StartTimesOut
    \/ TunnelStop
    \/ StopSyncLocked
    \/ StopSyncUnlocked
    \/ CliTunnelStart
    \/ CliTunnelStop

SpecTunnel == TunnelInit /\ [][TunnelNext]_vars

(***************************************************************************)
(* What the claims about the guard are measured against.                   *)
(*                                                                         *)
(* RefTokens cuts a text into tokens by the rules of the specification     *)
(* (section 4.1): a '...' literal with '' inside, a "..." identifier with  *)
(* "" inside, a -- comment up to the line break, a nested block comment, a *)
(* $tag$...$tag$ block with a tag of letters, digits and _, and single     *)
(* characters otherwise.  An unterminated token runs to the end.           *)
(***************************************************************************)
Min(S) == CHOOSE x \in S : \A y \in S : x <= y

\* position of the quote closing a literal opened before j
RECURSIVE RefQuoteEnd(_, _, _)
RefQuoteEnd(q, j, c) ==
    IF j > Len(q) THEN Len(q)
    ELSE IF q[j] # c THEN RefQuoteEnd(q, j + 1, c)
    ELSE IF j + 1 <= Len(q) /\ q[j + 1] = c THEN RefQuoteEnd(q, j + 2, c)
    ELSE j

\* position of the last character of a block comment, depth counted from j
RECURSIVE RefBlockEnd(_, _, _)
RefBlockEnd(q, j, depth) ==
    IF j > Len(q) THEN Len(q)
    ELSE IF j + 1 <= Len(q) /\ q[j] = "*" /\ q[j + 1] = "/" THEN
        IF depth = 1 THEN j + 1 ELSE RefBlockEnd(q, j + 2, depth - 1)
    ELSE IF j + 1 <= Len(q) /\ q[j] = "/" /\ q[j + 1] = "*" THEN
        RefBlockEnd(q, j + 2, depth + 1)
    ELSE RefBlockEnd(q, j + 1, depth)

\* a line comment ends before the first line break after it
RefLineEnd(q, j) ==
    LET brk == {k \in j..Len(q) : q[k] \in {"\r", "\n"}} IN
    IF brk = {} THEN Len(q) ELSE Min(brk) - 1

\* the positions k > i of a '$' closing an opening tag that starts at i
RefTagCloses(q, i) ==
    {k \in (i + 1)..Len(q) : q[k] = "$" /\ \A m \in (i + 1)..(k - 1) : IsTagChar(q[m])}

RefDollarEnd(q, i) ==
    LET k == Min(RefTagCloses(q, i))
        tag == SubSeq(q, i, k)
        closes == {c \in (k + 1)..Len(q) : StartsWithAt(q, tag, c)}
    IN IF closes = {} THEN Len(q) ELSE Min(closes) + Len(tag) - 1

RefTokenAt(q, i) ==
    LET two == IF i + 1 <= Len(q) THEN <<q[i], q[i + 1]>> ELSE <<q[i]>> IN
    IF two = <<"-", "-">> THEN [kind |-> "comment", from |-> i, to |-> RefLineEnd(q, i + 2)]
    ELSE IF two = <<"/", "*">> THEN [kind |-> "comment", from |-> i, to |-> RefBlockEnd(q, i + 2, 1)]
    ELSE IF q[i] = "'" THEN [kind |-> "literal", from |-> i, to |-> RefQuoteEnd(q, i + 1, "'")]
    ELSE IF q[i] = "\"" THEN [kind |-> "literal", from |-> i, to |-> RefQuoteEnd(q, i + 1, "\"")]
    ELSE IF q[i] = "$" /\ RefTagCloses(q, i) # {} THEN
        [kind |-> "literal", from |-> i, to |-> RefDollarEnd(q, i)]
    ELSE IF q[i] \in Whitespace THEN [kind |-> "blank", from |-> i, to |-> i]
    ELSE IF q[i] = ";" THEN [kind |-> "semicolon", from |-> i, to |-> i]
    ELSE [kind |-> "text", from |-> i, to |-> i]

RECURSIVE RefTokensFrom(_, _)
RefTokensFrom(q, i) ==
    IF i > Len(q) THEN <<>>
    ELSE LET t == RefTokenAt(q, i) IN <<t>> \o RefTokensFrom(q, t.to + 1)

RefTokens(q) == RefTokensFrom(q, 1)

\* the semicolons outside literals and comments
RefSemicolons(q) ==
    LET ts == RefTokens(q) IN {ts[k].from : k \in {m \in 1..Len(ts) : ts[m].kind = "semicolon"}}

\* only whitespace and comments follow position p
RefOnlyBlankAfter(q, p) ==
    LET ts == RefTokens(q) IN
    \A k \in 1..Len(ts) : ts[k].from > p => ts[k].kind \in {"blank", "comment"}

\* one statement, with at most a closing semicolon
RefSingleStatement(q) ==
    LET semis == RefSemicolons(q) IN
    \/ semis = {}
    \/ Cardinality(semis) = 1 /\ \A p \in semis : RefOnlyBlankAfter(q, p)

CountChar(q, c) == Cardinality({k \in 1..Len(q) : q[k] = c})

(***************************************************************************)
(* PostgreSQL's own lexical rules (the scanner of the server and of psql), *)
(* with standard_conforming_strings on: '...' takes backslashes literally, *)
(* E'...' takes a backslash as an escape of the next character, an         *)
(* identifier may contain '$' after its first character, $n is a           *)
(* parameter, and a dollar-quote tag is empty or an identifier without     *)
(* '$'.  PgLex gives the positions of the semicolons PostgreSQL takes as   *)
(* statement terminators, whether anything but whitespace and comments     *)
(* follows the last of them, and whether the text lexes without an         *)
(* unterminated literal or comment.                                        *)
(***************************************************************************)
PgIdentStart(c) == c \in Letters \cup {"_"}
PgIdentCont == Letters \cup Digits \cup {"_", "$"}
PgTagCont == Letters \cup Digits \cup {"_"}

\* the first position from j on whose character is not in S
RECURSIVE PgSkip(_, _, _)
PgSkip(q, j, S) == IF j <= Len(q) /\ q[j] \in S THEN PgSkip(q, j + 1, S) ELSE j

\* the first line break from j on, or the end
RECURSIVE PgLineEnd(_, _)
PgLineEnd(q, j) == IF j <= Len(q) /\ q[j] \notin {"\r", "\n"} THEN PgLineEnd(q, j + 1) ELSE j

\* position of the closing quote, 0 when the literal is unterminated;
\* escapes: a backslash escapes the next character (E'...')
RECURSIVE PgQuoteEnd(_, _, _, _)
PgQuoteEnd(q, j, c, escapes) ==
    IF j > Len(q) THEN 0
    ELSE IF escapes /\ q[j] = "\\" THEN PgQuoteEnd(q, j + 2, c, escapes)
    ELSE IF q[j] # c THEN PgQuoteEnd(q, j + 1, c, escapes)
    ELSE IF j + 1 <= Len(q) /\ q[j + 1] = c THEN PgQuoteEnd(q, j + 2, c, escapes)
    ELSE j

RECURSIVE PgBlockEnd(_, _, _)
PgBlockEnd(q, j, depth) ==
    IF j + 1 > Len(q) THEN 0
    ELSE IF q[j] = "*" /\ q[j + 1] = "/" THEN
        IF depth = 1 THEN j + 1 ELSE PgBlockEnd(q, j + 2, depth - 1)
    ELSE IF q[j] = "/" /\ q[j + 1] = "*" THEN PgBlockEnd(q, j + 2, depth + 1)
    ELSE PgBlockEnd(q, j + 1, depth)

\* the '$' that ends an opening dollar-quote tag starting at i, 0 when the
\* '$' at i opens no dollar quote
PgTagClose(q, i) ==
    LET k == PgSkip(q, i + 1, PgTagCont) IN
    IF k <= Len(q) /\ q[k] = "$" /\ (k = i + 1 \/ PgIdentStart(q[i + 1])) THEN k ELSE 0

PgDollarEnd(q, i, k) ==
    LET tag == SubSeq(q, i, k)
        closes == {c \in (k + 1)..Len(q) : StartsWithAt(q, tag, c)}
    IN IF closes = {} THEN 0 ELSE Min(closes) + Len(tag) - 1

PgSeen(acc) == [acc EXCEPT !.tail = (acc.terms # <<>>)]

RECURSIVE PgLexFrom(_, _, _)
PgLexFrom(q, i, acc) ==
    IF i > Len(q) THEN acc
    ELSE
    LET ch == q[i]
        nxt == IF i + 1 <= Len(q) THEN q[i + 1] ELSE ""
        stop == [acc EXCEPT !.ok = FALSE]
    IN
    IF ch \in Whitespace THEN PgLexFrom(q, i + 1, acc)
    ELSE IF ch = "-" /\ nxt = "-" THEN
        PgLexFrom(q, PgLineEnd(q, i + 2), acc)
    ELSE IF ch = "/" /\ nxt = "*" THEN
        LET e == PgBlockEnd(q, i + 2, 1) IN
        IF e = 0 THEN stop ELSE PgLexFrom(q, e + 1, acc)
    ELSE IF ch \in {"E", "e"} /\ nxt = "'" THEN
        LET e == PgQuoteEnd(q, i + 2, "'", TRUE) IN
        IF e = 0 THEN stop ELSE PgLexFrom(q, e + 1, PgSeen(acc))
    ELSE IF ch \in {"'", "\""} THEN
        LET e == PgQuoteEnd(q, i + 1, ch, FALSE) IN
        IF e = 0 THEN stop ELSE PgLexFrom(q, e + 1, PgSeen(acc))
    ELSE IF PgIdentStart(ch) THEN
        PgLexFrom(q, PgSkip(q, i + 1, PgIdentCont), PgSeen(acc))
    ELSE IF ch = "$" /\ nxt \in Digits THEN
        PgLexFrom(q, PgSkip(q, i + 1, Digits), PgSeen(acc))
    ELSE IF ch = "$" /\ PgTagClose(q, i) > 0 THEN
        LET e == PgDollarEnd(q, i, PgTagClose(q, i)) IN
        IF e = 0 THEN stop ELSE PgLexFrom(q, e + 1, PgSeen(acc))
    ELSE IF ch = ";" THEN
        PgLexFrom(q, i + 1, [acc EXCEPT !.terms = Append(@, i), !.tail = FALSE])
    ELSE PgLexFrom(q, i + 1, PgSeen(acc))

PgLex(q) == PgLexFrom(q, 1, [ok |-> TRUE, terms |-> <<>>, tail |-> FALSE])

\* PostgreSQL runs more than the one statement: a terminator that is not
\* just the closing one
PgRunsFurtherStatement(q) ==
    LET pg == PgLex(q) IN
    pg.ok /\ (Len(pg.terms) > 1 \/ (Len(pg.terms) = 1 /\ pg.tail))

(***************************************************************************)
(* Claims about the guard.                                                 *)
(***************************************************************************)
\* C1: a query the psql executor's guard accepts holds no semicolon that
\* PostgreSQL takes as a statement terminator, except a closing one.
C1_AcceptedNeverEscapes ==
    (verdict.by = "pg_cli" /\ verdict.ok) => ~PgRunsFurtherStatement(verdict.text)

\* C2: what sanitize_read_only_sql returns is one statement (at most one
\* semicolon outside literals and comments, nothing but whitespace and
\* comments after it), and every input that is not is refused as
\* 'Multiple SQL statements'.
C2_SingleStatement ==
    verdict.by = "sql_guard" =>
        /\ verdict.ok => RefSingleStatement(verdict.text)
        /\ ~RefSingleStatement(QueryText) =>
               (~verdict.ok /\ verdict.why = "multiple_statements")

\* C2 happens: an accepted text with a semicolon inside a literal and the
\* closing one outside
C2_Witness ==
    /\ verdict.by = "sql_guard" /\ verdict.ok
    /\ Cardinality(RefSemicolons(verdict.text)) = 1
    /\ CountChar(verdict.text, ";") = 2

(***************************************************************************)
(* The keywords a text opens with: the maximal runs of identifier          *)
(* characters after the leading whitespace, each separated from the next   *)
(* by whitespace alone, in upper case.                                     *)
(***************************************************************************)
RefWordChars == Letters \cup Digits \cup {"_", "$"}

RECURSIVE RefLeadingWordsFrom(_, _)
RefLeadingWordsFrom(q, i) ==
    LET from == PgSkip(q, i, Whitespace)
        to == PgSkip(q, from, RefWordChars)
    IN IF to = from \/ (i > 1 /\ from = i) THEN <<>>
       ELSE <<UpperText(SubSeq(q, from, to - 1))>> \o RefLeadingWordsFrom(q, to)

RefLeadingWords(q) == RefLeadingWordsFrom(q, 1)

RefBeginsWithVerb(q) ==
    LET ws == RefLeadingWords(q) IN
    \E a \in 1..Len(TRANSACTION_PREFIX) :
        LET verb == TRANSACTION_PREFIX[a] IN
        Len(verb) <= Len(ws) /\ SubSeq(ws, 1, Len(verb)) = verb

\* C3: a query that opens with one of the 14 transaction-control verbs, in
\* any letter case and with any whitespace between the keywords, does not
\* get through sanitize_read_only_sql.
C3_VerbNeverAccepted ==
    (verdict.by = "sql_guard" /\ RefBeginsWithVerb(QueryText)) => ~verdict.ok

\* C40: the guard the psql executor runs (_prepare_user_query) and
\* sanitize_read_only_sql agree on every query: both accept it and return
\* the same text, or both reject it, for the same reason (empty, several
\* statements, transaction control) and with the same kind of error, the
\* read-only violation ReadOnlyQueryError
C40_GuardsAgree ==
    verdict.by = "pg_cli" =>
        LET guard == sanitize_read_only_sql(QueryText) IN
        /\ verdict.ok = guard.ok
        /\ verdict.text = guard.text
        /\ verdict.why = guard.why
        /\ verdict.exc = guard.exc
        /\ ~verdict.ok => verdict.exc = "ReadOnlyQueryError"

\* the part of C40 apart from the kind of the error: the same queries
\* accepted, the same text returned, the same reason for a refusal
C40_GuardsAgreeApartFromKind ==
    verdict.by = "pg_cli" =>
        LET guard == sanitize_read_only_sql(QueryText) IN
        /\ verdict.ok = guard.ok
        /\ verdict.text = guard.text
        /\ verdict.why = guard.why

(***************************************************************************)
(* Claims about the executors.                                             *)
(***************************************************************************)
\* nothing the call started is left behind
Released ==
    /\ proc \in {"none", "killed", "exited"}
    /\ conn \in {"none", "closed"}
    /\ tunnel \in {"none", "stopped"}

\* C4: a call naming a database outside allowed_databases fails as
\* DatabaseNotAllowed before any tunnel, connection or process exists; any
\* other call connects to the database asked for, or to the default one when
\* none is asked for.
C4_DatabaseAllowlist ==
    pc # "idle" =>
        IF resolve_database(call.database).ok
        THEN db_name \in {"", resolve_database(call.database).name}
        ELSE /\ pc = "done"
             /\ returned.why = "database_not_allowed"
             /\ db_name = ""
             /\ tunnel = "none" /\ proc = "none" /\ conn = "none" /\ worker = "none"

\* the UTF-8 bytes of the lines and one byte for each newline between them
RECURSIVE RefBytes(_)
RefBytes(ls) ==
    IF ls = <<>> THEN 0
    ELSE IF Len(ls) = 1 THEN Len(ls[1])
    ELSE RefBytes(SubSeq(ls, 1, Len(ls) - 1)) + 1 + Len(ls[Len(ls)])

NoticeCount(out, n) == Cardinality({k \in 1..Len(out) : out[k] = Notice(n)})

NoticeOnlyWhenTruncated ==
    LET n == cfg.max_result_bytes
        out == returned.output
    IN /\ (NoticeCount(out, n) > 0) <=> (returned.why = "truncated")
       /\ NoticeCount(out, n) > 0 => (NoticeCount(out, n) = 1 /\ out[Len(out)] = Notice(n))

\* C5: the returned text holds the line [RESULT TRUNCATED: exceeded
\* max_result_bytes=<N> bytes] exactly when the size cap stopped the stream,
\* and then once, as its last line.
C5_NoticeIffTruncated == returned.kind = "ok" => NoticeOnlyWhenTruncated

\* C5 as amended: the same, for results none of whose own lines is that text.
C5_NoticeIffTruncatedOwnLinesApart ==
    (returned.kind = "ok" /\ \A k \in 1..Len(lines) : lines[k] # Notice(cfg.max_result_bytes))
        => NoticeOnlyWhenTruncated

\* C5 happens: a truncated result of two or more lines, none of them the notice
C5_Witness ==
    /\ returned.kind = "ok"
    /\ returned.why = "truncated"
    /\ Len(lines) >= 2
    /\ \A k \in 1..Len(lines) : lines[k] # Notice(cfg.max_result_bytes)
    /\ returned.output[Len(returned.output)] = Notice(cfg.max_result_bytes)

\* C6: under a cap M > 0 the bytes counted are the bytes of the admitted
\* lines and their newlines, and they are at most M unless exactly one line
\* has been admitted.
C6_CapNeverPassed ==
    stream_max_bytes > 0 =>
        /\ total_bytes = RefBytes(lines)
        /\ total_bytes <= stream_max_bytes \/ Len(lines) = 1

\* C6 happens: a line was refused after two or more were admitted
C6_Witness ==
    /\ stream_max_bytes > 0
    /\ truncated
    /\ Len(lines) >= 2
    /\ total_bytes <= stream_max_bytes

\* C7: the endpoint a call connects or tunnels to is the one the server
\* selector gives for the server the caller asked for.
C7_ServerHonoured ==
    target # "" => target = select_server(call.server, cfg.ssh).host

\* C9: when the caller gets HardTimeoutError, the client process is killed,
\* the driver connection closed and the tunnel stopped.
C9_CancelReleasesAll == returned.exc = "HardTimeoutError" => Released

\* C10: when a call ends on its own (rows exhausted, truncated, query
\* timeout, backend error, missing tool), its process has exited, its
\* connection is closed and its tunnel is stopped.
C10_ReturnReleasesAll ==
    (pc = "done" /\ returned.why \in {"rows_exhausted", "truncated", "query_timeout",
                                      "backend_error", "missing_tool"})
        => Released

\* C12: a call made while disable_result_limit is active is never truncated,
\* whichever of the four executors runs it and whatever max_result_bytes the
\* connection sets: its text is the text of every line admitted, without the
\* notice.
C12_OverrideStreamsWhole ==
    (pc # "idle" /\ ~call.enforce_limit) =>
        /\ ~truncated
        /\ returned.kind = "ok" => returned.output = joined_output(cfg.executor, lines)

C26_FallbackOnlyOnAuth ==
    /\ [][cfg.executor = "ch_python" =>
            /\ (tunnel_impl = "paramiko" /\ tunnel_impl' = "system_ssh") =>
                   start_error' = "auth"
            /\ (pc = "tunnel_start" /\ tunnel_impl = "paramiko" /\ start_error' = "auth") =>
                   (tunnel_impl' = "system_ssh" /\ pc' = "tunnel_start" /\ returned' = NoReturn)
            /\ (pc = "tunnel_start" /\ start_error' # start_error
                    /\ ~(tunnel_impl = "paramiko" /\ start_error' = "auth")) =>
                   (pc' = "done" /\ returned'.prefix = "SSH:" /\ tunnel_impl' = tunnel_impl)
            /\ tunnel_impl = "system_ssh" =>
                   /\ tunnel_impl' = "system_ssh"
                   /\ pc = "tunnel_start" => pc' # "tunnel_start"
            /\ (tunnel_impl = "system_ssh" /\ tunnel = "up" /\ pc' = "done") =>
                   tunnel' = "stopped"]_vars
    /\ [](cfg.executor = "ch_python" /\ tunnel_impl = "system_ssh" /\ pc = "done"
              => tunnel # "up")

\* C26 happens: after a failed authentication of the in-process tunnel the
\* call ran through the system ssh tunnel, ended, and the tunnel is stopped
C26_Witness ==
    /\ cfg.executor = "ch_python"
    /\ tunnel_impl = "system_ssh"
    /\ start_error = "auth"
    /\ pc = "done"
    /\ tunnel = "stopped"
    /\ returned.why \in {"rows_exhausted", "backend_error"}

\* C27: when the server refuses the read-only session option psql is given
\* in PGOPTIONS, psql is run once more without PGOPTIONS and the call gives
\* what that second run gives, so that no call ends with the refusal; no
\* other failure makes a second run
C27_RetriedWithoutPgoptions ==
    /\ returned.why # "option_rejected"
    /\ Len(spawn_env) <= 2
    /\ Len(spawn_env) = 2 => (spawn_env[1].PGOPTIONS /\ ~spawn_env[2].PGOPTIONS)

IsPrefix(s, t) == Len(s) <= Len(t) /\ \A i \in 1..Len(s) : s[i] = t[i]

\* the lines of a returned text that are not the notice put after them
RefBody(output, was_truncated) ==
    IF was_truncated /\ output # <<>> THEN SubSeq(output, 1, Len(output) - 1) ELSE output

\* C29: in every executor the lines admitted, and the lines of the returned
\* text other than the truncation notice, are the first lines, in order, of
\* the header and rows the backend sent: none is reordered, repeated or
\* passed over before a later one is admitted, and the header comes first
C29_OutputIsPrefix ==
    /\ IsPrefix(lines, emitted)
    /\ returned.kind = "ok" => IsPrefix(RefBody(returned.output, truncated), emitted)

(***************************************************************************)
(* Claims about the configuration.                                         *)
(***************************************************************************)
\* the term the tunnel's own ssh_timeout, or the default, gives
RefSshTerm(c) ==
    IF Has(c.ssh_tunnel) /\ Has(ValueOf(c.ssh_tunnel).ssh_timeout)
    THEN ValueOf(ValueOf(c.ssh_tunnel).ssh_timeout) ELSE 5

\* C11: hard_timeout = ssh_timeout + connection_timeout + query_timeout,
\* where the ssh_timeout term is 0 for a connection without an SSH tunnel.
C11_HardTimeoutNoTunnelNoTerm ==
    \A k \in 1..Len(connectors) :
        LET c == loaded.connections[k] IN
        connectors[k].hard_timeout =
            (IF Has(c.ssh_tunnel) THEN RefSshTerm(c) ELSE 0)
                + c.connection_timeout + c.query_timeout

\* C11 as amended: the same sum, where the ssh_timeout term is the tunnel's
\* ssh_timeout when it sets one and 5 otherwise, without a tunnel as well.
C11_HardTimeoutDefaultTerm ==
    \A k \in 1..Len(connectors) :
        LET c == loaded.connections[k] IN
        connectors[k].hard_timeout = RefSshTerm(c) + c.connection_timeout + c.query_timeout

\* C11 happens: a connector without a tunnel, connection_timeout 2 and
\* query_timeout 1, whose hard timeout is 8
C11_Witness ==
    /\ Len(connectors) = 1
    /\ ~Has(loaded.connections[1].ssh_tunnel)
    /\ loaded.connections[1].connection_timeout = 2
    /\ loaded.connections[1].query_timeout = 1
    /\ connectors[1].hard_timeout = 8

C16_DefaultInAllowlist ==
    \A k \in 1..Len(loaded.connections) :
        LET c == loaded.connections[k] IN
        /\ c.database # <<>>
        /\ c.allowed_databases # <<>>
        /\ c.database \in Range(c.allowed_databases)

\* C16 happens: a record with a list of two and a default that is not its
\* first entry has loaded
C16_Witness ==
    /\ loaded.status = "ok"
    /\ Len(loaded.connections[1].allowed_databases) = 2
    /\ loaded.connections[1].database = loaded.connections[1].allowed_databases[2]

RefValid(k) == raw_configs[k].is_dict /\ Connection(raw_configs[k], env).ok
\* an earlier record that passed validation already holds the name
RefNameTaken(k) ==
    \E j \in 1..(k - 1) :
        /\ RefValid(j)
        /\ raw_configs[j].connection_name = raw_configs[k].connection_name
RefFails(k) == ~RefValid(k) \/ RefNameTaken(k)
RefFailing == {k \in 1..Len(raw_configs) : RefFails(k)}
RefSharedName ==
    \E j, k \in 1..Len(raw_configs) :
        /\ j < k
        /\ raw_configs[j].is_dict /\ raw_configs[k].is_dict
        /\ Has(raw_configs[j].connection_name)
        /\ raw_configs[j].connection_name = raw_configs[k].connection_name

RefLabel(k) ==
    IF /\ raw_configs[k].is_dict /\ Has(raw_configs[k].connection_name)
    THEN ValueOf(raw_configs[k].connection_name) ELSE <<"#", ToString(k)>>

\* C18: every record is validated whatever became of the records before it:
\* the error of the load has one entry for each record that failed, in the
\* order of the records, and a registry is given only when none failed.
C18_AllErrorsCollected ==
    (loaded.status # "none" /\ raw_configs # <<>>) =>
        /\ Len(loaded.errors) = Cardinality(RefFailing)
        /\ \A k \in RefFailing :
               loaded.errors[Cardinality({j \in RefFailing : j <= k})].label = RefLabel(k)
        /\ (loaded.status = "ok") <=> (RefFailing = {})
        /\ (loaded.status = "error") <=> (RefFailing # {})

\* C18 happens: the first and the last of three records fail, the one
\* between them is valid, and the error has the two entries
C18_Witness ==
    /\ loaded.status = "error"
    /\ Len(raw_configs) = 3
    /\ ~RefValid(1) /\ RefValid(2) /\ ~RefValid(3)
    /\ Len(loaded.errors) = 2
    /\ loaded.connections = <<>>

\* the order of C19: the literal field, then the variable password_env names,
\* then the convention variable
RefPasswordLiteralFirst(config, e) ==
    IF Has(config.password) THEN PasswordResult(TRUE, "", ValueOf(config.password))
    ELSE IF Has(config.password_env) THEN
        LET found == env_get(e, ValueOf(config.password_env)) IN
        IF Has(found) THEN PasswordResult(TRUE, "", ValueOf(found))
        ELSE PasswordResult(FALSE, "Password environment variable not found", <<>>)
    ELSE
        LET found == env_get(e, convention_env_name("DB_PASSWORD_", ValueOf(config.connection_name)))
        IN PasswordResult(TRUE, "", IF Has(found) THEN ValueOf(found) ELSE <<>>)


\* C19: the password is the literal field when the record has one, else the
\* value of the variable password_env names (the load fails when that
\* variable is missing), else the value of DB_PASSWORD_<NAME>, or empty.
C19_PasswordPrecedence ==
    (loaded.status # "none" /\ raw_configs \in {<<r>> : r \in PasswordRecords}) =>
        LET expected == RefPasswordLiteralFirst(raw_configs[1], env) IN
        IF expected.ok
        THEN loaded.status = "ok" /\ loaded.connections[1].password = expected.password
        ELSE loaded.status = "error"

\* the password a tunnel record resolves to: the variable password_env
\* names, else the literal field, else, for a record without a private key,
\* SSH_PASSWORD_<NAME>
RefTunnelPassword(config) ==
    LET data == ValueOf(config.ssh_tunnel) IN
    IF Has(data.password_env) THEN env_get(env, ValueOf(data.password_env))
    ELSE IF Has(data.password) THEN data.password
    ELSE IF ~Truthy(data.private_key)
    THEN env_get(env, convention_env_name("SSH_PASSWORD_", ValueOf(config.connection_name)))
    ELSE Absent

\* a one-record file whose tunnel record is in force and has neither a
\* private key nor a password that resolves to a non-empty value
RefTunnelWithoutCredential ==
    /\ Len(raw_configs) = 1
    /\ raw_configs[1].is_dict
    /\ Has(raw_configs[1].ssh_tunnel)
    /\ ~Has(ValueOf(raw_configs[1].ssh_tunnel).enabled)
    /\ ~Truthy(ValueOf(raw_configs[1].ssh_tunnel).private_key)
    /\ ~Truthy(RefTunnelPassword(raw_configs[1]))

\* C20: every SSH descriptor of a loaded connection has exactly one
\* non-empty credential among the private key path and the password, and a
\* tunnel record in which neither resolves to a non-empty value fails the
\* load.
C20_TunnelExactlyOneCredential ==
    loaded.status # "none" =>
        /\ \A k \in 1..Len(loaded.connections) :
               LET t == loaded.connections[k].ssh_tunnel IN
               Has(t) => (Truthy(ValueOf(t).private_key) # Truthy(ValueOf(t).password))
        /\ RefTunnelWithoutCredential => loaded.status = "error"

\* C20 as amended: at least one non-empty credential (both may be set), and
\* a tunnel record that is not switched off with enabled: false and in which
\* neither resolves to a non-empty value fails the load.
C20_TunnelHasCredential ==
    loaded.status # "none" =>
        /\ \A k \in 1..Len(loaded.connections) :
               LET t == loaded.connections[k].ssh_tunnel IN
               Has(t) => (Truthy(ValueOf(t).private_key) \/ Truthy(ValueOf(t).password))
        /\ RefTunnelWithoutCredential => loaded.status = "error"

\* C20 happens: a tunnel record whose only credential, the password named by
\* password_env, resolves to the empty string has failed the load
C20_Witness ==
    /\ loaded.status = "error"
    /\ RefTunnelWithoutCredential
    /\ Has(ValueOf(raw_configs[1].ssh_tunnel).password_env)
    /\ RefTunnelPassword(raw_configs[1]) = <<<<>>>>

\* the statement timeout postgresql/python.py sets, in milliseconds
statement_timeout(c) == c.query_timeout * 1000

\* C21: every connection of a loaded registry has a positive query_timeout
\* and a positive connection_timeout, so that the statement timeout and the
\* hard timeout derived from them are positive: a record that sets either
\* to zero or to a negative number is rejected at load
C21_TimeoutsPositive ==
    /\ loaded.status = "ok" =>
           \A k \in 1..Len(loaded.connections) :
               /\ loaded.connections[k].query_timeout > 0
               /\ loaded.connections[k].connection_timeout > 0
               /\ statement_timeout(loaded.connections[k]) > 0
    /\ \A k \in 1..Len(connectors) : connectors[k].hard_timeout > 0

RefSelector == IF Has(server_arg) THEN Strip(ValueOf(server_arg)) ELSE <<>>
RefHits == {k \in 1..Len(conn_servers) : conn_servers[k].host = RefSelector}
RefDisplayNames == {display_host(conn_servers[k], ssh_host) : k \in 1..Len(conn_servers)}
\* the selector is the tunnel's host and some endpoint is shown under it
RefAlias ==
    /\ Has(ssh_host)
    /\ RefSelector = ValueOf(ssh_host)
    /\ \E k \in 1..Len(conn_servers) : conn_servers[k].host \in local_hosts
\* position of the first endpoint shown under the name
RefFirstShown(name) ==
    CHOOSE k \in 1..Len(conn_servers) :
        /\ display_host(conn_servers[k], ssh_host) = name
        /\ \A m \in 1..(k - 1) : display_host(conn_servers[m], ssh_host) # name

C23_DisplayNameSelects ==
    (selected.kind # "none" /\ Has(server_arg) /\ ValueOf(server_arg) \in RefDisplayNames) =>
        /\ selected.kind = "return"
        /\ display_host(selected.server, ssh_host) = ValueOf(server_arg)

\* the port of ClickHouse each implementation speaks to, for a configured port
RefClickHousePort(e, p) ==
    IF e = "ch_python" THEN (CASE p = 9000 -> 8123 [] p = 9440 -> 8443 [] OTHER -> p)
    ELSE (CASE p = 8123 -> 9000 [] p = 8443 -> 9440 [] OTHER -> p)

\* C24: for a ClickHouse connector the port list_connections shows for an
\* endpoint is the port the executor targets for it, directly or as the
\* remote port of the tunnel: the native executor turns 9000 into 8123 and
\* 9440 into 8443, the CLI executor 8123 into 9000 and 8443 into 9440, and
\* any other port is kept
C24_ShownPortIsTargetPort ==
    (~IsPg(cfg.executor) /\ connect_to.via # "none" /\ listed # <<>>) =>
        \A k \in 1..Len(conn_servers) :
            conn_servers[k] = selected.server =>
                /\ listed[k].port = connect_to.port
                /\ connect_to.port = RefClickHousePort(cfg.executor, conn_servers[k].port)

\* C24 happens: the native executor reached 8443 for an endpoint of port
\* 9440, behind a tunnel or not, and the listing showed 8443
C24_Witness ==
    /\ cfg.executor = "ch_python"
    /\ connect_to.via # "none"
    /\ selected.server.port = 9440
    /\ connect_to.port = 8443
    /\ listed # <<>>

\* C39: the command line of clickhouse-client has --secure exactly when the
\* port of ClickHouse the selected endpoint is reached on, after 8123 became
\* 9000 and 8443 became 9440, is 9440, for a direct connection and through
\* the local port of a tunnel alike; it always has --readonly 1,
\* --max_execution_time, --connect_timeout and --format TabSeparatedWithNames
C39_SecureIffTlsPort ==
    (cfg.executor = "ch_cli" /\ connect_to.via # "none") =>
        /\ client_cmd.secure <=>
               (effective_port("clickhouse", "cli", selected.server.port) = 9440)
        /\ client_cmd.readonly = <<"1">>
        /\ client_cmd.max_execution_time
        /\ client_cmd.connect_timeout
        /\ client_cmd.format = "TabSeparatedWithNames"

\* the part of C39 about a direct connection, and the flags always present
C39_DirectSecureIffTlsPort ==
    (cfg.executor = "ch_cli" /\ connect_to.via # "none") =>
        /\ connect_to.via = "direct" =>
               (client_cmd.secure <=>
                   (effective_port("clickhouse", "cli", selected.server.port) = 9440))
        /\ client_cmd.readonly = <<"1">>
        /\ client_cmd.max_execution_time
        /\ client_cmd.connect_timeout
        /\ client_cmd.format = "TabSeparatedWithNames"

(***************************************************************************)
(* Claims about the tunnel objects.                                        *)
(***************************************************************************)
\* C25: for both tunnel implementations a failure of start is a timeout
\* with the message 'SSH: Connection timeout after <n>s', or an
\* authentication error, or another error, and each carries the SSH: prefix
C25_StartFailuresPrefixed ==
    (tunnel_call.op = "start" /\ tunnel_call.kind = "raise") =>
        /\ tunnel_call.prefix = "SSH:"
        /\ \/ /\ tunnel_call.exc = "TimeoutError"
              /\ tunnel_call.text = timeout_text(tunnel_obj.ssh_timeout)
           \/ /\ tunnel_call.exc = "RuntimeError"
              /\ tunnel_call.text # timeout_text(tunnel_obj.ssh_timeout)

\* the tunnel object holds nothing
HoldsNothing ==
    /\ ~tunnel_obj.local_port
    /\ ~tunnel_obj.ssh_process
    /\ ~tunnel_obj.tunnel_thread
    /\ ~tunnel_obj.transport

\* C28: stop raises nothing, and once a stop has returned the tunnel holds
\* no local port, process, forwarder thread or SSH transport, whatever calls
\* of start and stop came before
C28_StopLeavesNothing ==
    /\ tunnel_call.op = "stop" => tunnel_call.kind # "raise"
    /\ (tunnel_call.op = "stop" /\ tunnel_call.kind = "return") => HoldsNothing

(***************************************************************************)
(* Two execute_query calls running at once on one connector (the          *)
(* ClickHouse CLI executor).  The connector carries its configuration;    *)
(* the tunnel, the process, lines, total_bytes and truncated are locals   *)
(* of the frame of each call.                                              *)
(***************************************************************************)
MaxPairLines == 2
PairLines == {"id", "4242"}

\* the frame a call keeps its locals in, were they attributes of the
\* connector object
frame_of_connector(i) == "a"

\* the frame a call keeps its locals in: its own
frame_of(i) == i

PairInit ==
    /\ cfg \in [executor : {"ch_cli"}, ssh : BOOLEAN, max_result_bytes : CapValues]
    /\ PairIdle
    /\ ExecIdle
    /\ GuardIdle
    /\ TimeoutIdle
    /\ ConfigIdle
    /\ FileIdle
    /\ SelectIdle
    /\ TunnelObjIdle
    /\ NoiseIdle
    /\ OverrideIdle
    /\ AcctIdle

PairOthers == <<guardVars, execVars, timeoutVars, configVars, fileVars, selectVars,
                tunnelObjVars, noiseVars, overrideVars, acctVars>>

\* the tunnel of the frame after tunnel.stop() of _get_ssh_tunnel's finally
tunnel_stopped(f) == IF f.tunnel = "up" THEN "stopped" ELSE f.tunnel

\* execute_query is entered: _get_ssh_tunnel makes the tunnel of this call
\* and starts it, or yields None without one
PairExecute(i) ==
    /\ tasks[i].pc = "idle"
    /\ frames' = [frames EXCEPT ![frame_of(i)].tunnel =
                                    IF cfg.ssh THEN "starting" ELSE "none"]
    /\ tasks' = [tasks EXCEPT ![i].pc = IF cfg.ssh THEN "tunnel_start" ELSE "open"]
    /\ UNCHANGED PairOthers

PairTunnelUp(i) ==
    /\ tasks[i].pc = "tunnel_start"
    /\ frames' = [frames EXCEPT ![frame_of(i)].tunnel = "up"]
    /\ tasks' = [tasks EXCEPT ![i].pc = "open"]
    /\ UNCHANGED PairOthers

PairTunnelFails(i) ==
    /\ tasks[i].pc = "tunnel_start"
    /\ frames' = [frames EXCEPT ![frame_of(i)].tunnel = "stopped"]
    /\ tasks' = [tasks EXCEPT ![i].pc = "done",
                              ![i].returned = Failure("RuntimeError", "SSH:", "ssh_error")]
    /\ UNCHANGED PairOthers

\* create_subprocess_exec, then the locals of the read loop are set up
PairSpawn(i) ==
    /\ tasks[i].pc = "open"
    /\ frames' = [frames EXCEPT ![frame_of(i)].proc = "running",
                                ![frame_of(i)].lines = <<>>,
                                ![frame_of(i)].total_bytes = 0,
                                ![frame_of(i)].truncated = FALSE]
    /\ tasks' = [tasks EXCEPT ![i].pc = "read"]
    /\ UNCHANGED PairOthers

\* one turn of the read loop with a line from the process of this call
PairReadLine(i) ==
    /\ tasks[i].pc = "read"
    /\ frames[frame_of(i)].proc = "running"
    /\ Len(tasks[i].emitted) < MaxPairLines
    /\ \E line \in PairLines :
        LET f == frames[frame_of(i)]
            r == append_line(f.lines, f.total_bytes, line, cfg.max_result_bytes)
        IN /\ frames' = [frames EXCEPT ![frame_of(i)].lines = r.lines,
                                       ![frame_of(i)].total_bytes = r.total_bytes,
                                       ![frame_of(i)].truncated = r.truncated]
           /\ tasks' = [tasks EXCEPT ![i].emitted = Append(@, line),
                                     ![i].pc = IF r.truncated THEN "reap" ELSE "read"]
    /\ UNCHANGED PairOthers

\* readline gives b'': the loop ends
PairReadEof(i) ==
    /\ tasks[i].pc = "read"
    /\ tasks' = [tasks EXCEPT ![i].pc = "reap"]
    /\ UNCHANGED <<frames, PairOthers>>

\* the deadline of the call passes in the read loop: its process is killed
PairReadTimeout(i) ==
    /\ tasks[i].pc = "read"
    /\ frames' = [frames EXCEPT ![frame_of(i)].proc = "killed",
                                ![frame_of(i)].tunnel = tunnel_stopped(frames[frame_of(i)])]
    /\ tasks' = [tasks EXCEPT ![i].pc = "done",
                              ![i].returned = Failure("TimeoutError", CliPrefix(cfg.executor),
                                                      "query_timeout")]
    /\ UNCHANGED PairOthers

\* the process is killed if the cap stopped the stream, waited for, and the
\* call returns through _get_ssh_tunnel's finally
PairReap(i) ==
    /\ tasks[i].pc = "reap"
    /\ LET f == frames[frame_of(i)]
       IN /\ frames' = [frames EXCEPT ![frame_of(i)].proc =
                                          IF f.truncated /\ f.proc = "running"
                                          THEN "killed" ELSE "exited",
                                      ![frame_of(i)].tunnel = tunnel_stopped(f)]
          /\ \E returncode \in {0, 1} :
              tasks' = [tasks EXCEPT
                  ![i].pc = "done",
                  ![i].returned =
                      IF returncode # 0 /\ ~f.truncated
                      THEN Failure("RuntimeError", CliPrefix(cfg.executor), "backend_error")
                      ELSE Success(IF f.truncated THEN "truncated" ELSE "rows_exhausted",
                                   final_output(cfg.executor, f.lines, f.truncated,
                                                cfg.max_result_bytes))]
    /\ UNCHANGED PairOthers

PairNext ==
    \E i \in Calls :
        \/ PairExecute(i)
        \/ PairTunnelUp(i)
        \/ PairTunnelFails(i)
        \/ PairSpawn(i)
        \/ PairReadLine(i)
        \/ PairReadEof(i)
        \/ PairReadTimeout(i)
        \/ PairReap(i)

SpecPair == PairInit /\ [][PairNext]_vars

(***************************************************************************)
(* Claims about calls running at once.                                     *)
(***************************************************************************)
\* what a call running alone has admitted after the process sent it sent
RECURSIVE stream_alone(_, _)
stream_alone(sent, max_bytes) ==
    IF sent = <<>> THEN [lines |-> <<>>, total_bytes |-> 0, truncated |-> FALSE]
    ELSE LET before == stream_alone(SubSeq(sent, 1, Len(sent) - 1), max_bytes)
         IN IF before.truncated THEN before
            ELSE append_line(before.lines, before.total_bytes, sent[Len(sent)], max_bytes)

MaxLinePieces == 4
W_ROW == <<" ", "r", "o", "w">>
LinePieces == {<<"(">>, <<")">>, <<"1">>, <<"2">>, W_ROW, <<"s">>, <<"x">>, W_SET, W_COMMIT}

StdoutText == Flatten(stdout_line)

\* ' row' in line
ContainsText(text, part) == \E i \in 1..Len(text) : StartsWithAt(text, part, i)

\* the two tests that end in "continue": TRUE when the line is passed over
skips_line(line) ==
    \/ line \in {W_BEGIN, W_SET, W_COMMIT, W_ROLLBACK}
    \/ /\ line # <<>>
       /\ line[1] = "("
       /\ line[Len(line)] = ")"
       /\ ContainsText(line, W_ROW)

NoiseInit ==
    /\ stdout_line = <<>>
    /\ line_kept = ""
    /\ cfg = IdleConfig
    /\ ExecIdle
    /\ GuardIdle
    /\ TimeoutIdle
    /\ ConfigIdle
    /\ FileIdle
    /\ SelectIdle
    /\ TunnelObjIdle
    /\ PairIdle
    /\ OverrideIdle
    /\ AcctIdle

NoiseOthers == <<guardVars, execVars, timeoutVars, configVars, fileVars, selectVars,
                 tunnelObjVars, pairVars, overrideVars, acctVars>>

\* psql writes more of the line
WriteLinePiece ==
    /\ line_kept = ""
    /\ Len(stdout_line) < MaxLinePieces
    /\ \E p \in LinePieces : stdout_line' = Append(stdout_line, p)
    /\ UNCHANGED <<line_kept, NoiseOthers>>

\* one turn of the read loop, the cap not in the way
FilterLine ==
    /\ line_kept = ""
    /\ line_kept' = IF skips_line(StdoutText) THEN "discarded" ELSE "kept"
    /\ UNCHANGED <<stdout_line, NoiseOthers>>

NoiseNext == WriteLinePiece \/ FilterLine

SpecNoise == NoiseInit /\ [][NoiseNext]_vars

(***************************************************************************)
(* Claims about the lines psql writes.                                     *)
(***************************************************************************)
\* the line has the form (<N> row) or (<N> rows), N a run of digits
RefRowCountLine(line) ==
    \E n \in 1..Len(line) :
        /\ line[1] = "("
        /\ \A k \in 2..(n + 1) : k <= Len(line) /\ line[k] \in Digits
        /\ \/ SubSeq(line, n + 2, Len(line)) = W_ROW \o <<")">>
           \/ SubSeq(line, n + 2, Len(line)) = W_ROW \o <<"s", ")">>

\* C33: a line of psql's output is discarded if and only if it equals
\* BEGIN, SET, COMMIT or ROLLBACK or has the form (<N> row) / (<N> rows);
\* every other line is kept.
C33_OnlyStatusNoiseDiscarded ==
    line_kept # "" =>
        (line_kept = "discarded" <=>
            \/ StdoutText \in {W_BEGIN, W_SET, W_COMMIT, W_ROLLBACK}
            \/ RefRowCountLine(StdoutText))

(***************************************************************************)
(* connectors/base.py: disable_result_limit and                            *)
(* _effective_max_result_bytes, with two tasks at work on one connector.   *)
(* _enforce_limit_var is a ContextVar: each task has its own value of it.  *)
(***************************************************************************)
MaxNesting == 2
MaxReads == 2

\* where a task finds the flag, were it a plain attribute of the connector
context_of_connector(i) == "a"

\* where a task finds the flag: in its own context
context_of(i) == i

OverrideInit ==
    /\ cfg \in [executor : {"ch_python"}, ssh : {FALSE}, max_result_bytes : CapValues]
    /\ OverrideIdle
    /\ ExecIdle
    /\ GuardIdle
    /\ TimeoutIdle
    /\ ConfigIdle
    /\ FileIdle
    /\ SelectIdle
    /\ TunnelObjIdle
    /\ PairIdle
    /\ NoiseIdle
    /\ AcctIdle

OverrideOthers == <<guardVars, execVars, timeoutVars, configVars, fileVars, selectVars,
                    tunnelObjVars, pairVars, noiseVars, acctVars>>

\* "with connector.disable_result_limit():" is entered: set(False) gives the
\* token that holds the value before
EnterOverride(i) ==
    /\ Len(limit_tokens[i]) < MaxNesting
    /\ limit_tokens' = [limit_tokens EXCEPT ![i] = Append(@, limit_ctx[context_of(i)])]
    /\ limit_ctx' = [limit_ctx EXCEPT ![context_of(i)] = FALSE]
    /\ UNCHANGED <<cap_seen, OverrideOthers>>

\* the block is left, by its end or by an exception: the finally clause
\* resets the variable to what the token holds
LeaveOverride(i) ==
    /\ limit_tokens[i] # <<>>
    /\ LET token == limit_tokens[i][Len(limit_tokens[i])]
       IN limit_ctx' = [limit_ctx EXCEPT ![context_of(i)] = token]
    /\ limit_tokens' = [limit_tokens EXCEPT ![i] = SubSeq(@, 1, Len(@) - 1)]
    /\ UNCHANGED <<cap_seen, OverrideOthers>>

\* the task asks _effective_max_result_bytes
ReadEffectiveCap(i) ==
    /\ Len(cap_seen[i]) < MaxReads
    /\ cap_seen' = [cap_seen EXCEPT ![i] =
           Append(@, [inside |-> limit_tokens[i] # <<>>,
                      value |-> effective_max_result_bytes(limit_ctx[context_of(i)],
                                                           cfg.max_result_bytes)])]
    /\ UNCHANGED <<limit_ctx, limit_tokens, OverrideOthers>>

OverrideNext ==
    \E i \in Calls : EnterOverride(i) \/ LeaveOverride(i) \/ ReadEffectiveCap(i)

SpecOverride == OverrideInit /\ [][OverrideNext]_vars

(***************************************************************************)
(* Claims about the cap override.                                          *)
(***************************************************************************)
\* C36: the cap override is scoped to the call that set it: what a task
\* reads as its effective cap is 0 inside its own disable_result_limit and
\* the configured max_result_bytes outside it, before and after, whatever
\* the other task does with the override meanwhile.
C36_OverrideScopedToCall ==
    \A i \in Calls :
        /\ \A k \in 1..Len(cap_seen[i]) :
               cap_seen[i][k].value =
                   IF cap_seen[i][k].inside THEN 0 ELSE cfg.max_result_bytes
        /\ limit_tokens[i] = <<>> => limit_ctx[i]
        /\ limit_tokens[i] # <<>> => ~limit_ctx[i]

\* one task has read its cap inside the override and again after leaving
\* it, and the other task has read its own while the first was inside
C36_Witness ==
    /\ cfg.max_result_bytes > 0
    /\ Len(cap_seen["a"]) = 2
    /\ cap_seen["a"][1].inside
    /\ ~cap_seen["a"][2].inside
    /\ limit_tokens["a"] # <<>>
    /\ cap_seen["b"] # <<>>
    /\ ~cap_seen["b"][1].inside
    /\ cap_seen["b"][1].value = cfg.max_result_bytes

(***************************************************************************)
(* The size accounting of the four executors, each loop as its own source  *)
(* has it, run on the same header, rows and cap.                           *)
(***************************************************************************)
MaxAccountRows == 2
AccountHeaders == {"id", "name"}
AccountRows == {"", "7", "4242"}
AccountCaps == {0, 1, 2, 3, 4, 6, 64}

RECURSIVE SeqsUpTo(_, _)
SeqsUpTo(S, n) ==
    IF n = 0 THEN {<<>>}
    ELSE LET shorter == SeqsUpTo(S, n - 1)
         IN shorter \cup {Append(q, x) : q \in shorter, x \in S}

Accounted(r) == [lines |-> r.lines, total_bytes |-> r.total_bytes, truncated |-> r.truncated,
                 done |-> TRUE]

\* postgresql/python.py: the rows, until append_line answers False
RECURSIVE pg_python_rows(_, _, _, _)
pg_python_rows(rows, k, acc, max_bytes) ==
    IF k > Len(rows) THEN acc
    ELSE LET r == append_line(acc.lines, acc.total_bytes, rows[k], max_bytes)
         IN IF r.truncated THEN r ELSE pg_python_rows(rows, k + 1, r, max_bytes)

\* the first row is let in whatever the header left of the cap
pg_python_sync_query_first_row_free(header, rows, max_bytes) ==
    LET h == append_line(<<>>, 0, header, max_bytes)
    IN IF rows = <<>> THEN h
       ELSE pg_python_rows(rows, 2, [lines |-> Append(h.lines, rows[1]),
                                     total_bytes |-> h.total_bytes + 1 + Len(rows[1]),
                                     truncated |-> h.truncated], max_bytes)

\* postgresql/python.py _execute_sync_query: the answer of append_line for
\* the header is not looked at, the rows follow in any case
pg_python_sync_query(header, rows, max_bytes) ==
    pg_python_rows(rows, 1, append_line(<<>>, 0, header, max_bytes), max_bytes)

RECURSIVE ch_python_rows(_, _, _, _)
ch_python_rows(rows, k, acc, max_bytes) ==
    IF k > Len(rows) THEN acc
    ELSE LET r == append_line(acc.lines, acc.total_bytes, rows[k], max_bytes)
         IN IF r.truncated THEN r ELSE ch_python_rows(rows, k + 1, r, max_bytes)

\* clickhouse/python.py _execute_sync_query: a header that is refused ends
\* the function at once
ch_python_sync_query(header, rows, max_bytes) ==
    LET h == append_line(<<>>, 0, header, max_bytes)
    IN IF h.truncated THEN h ELSE ch_python_rows(rows, 1, h, max_bytes)

\* postgresql/cli.py: the read loop over the lines that are not status
\* noise, header and rows alike
RECURSIVE psql_read_loop(_, _, _, _)
psql_read_loop(stdout, k, acc, max_bytes) ==
    IF k > Len(stdout) THEN acc
    ELSE LET r == append_line(acc.lines, acc.total_bytes, stdout[k], max_bytes)
         IN IF r.truncated THEN r ELSE psql_read_loop(stdout, k + 1, r, max_bytes)

\* clickhouse/cli.py: the read loop
RECURSIVE clickhouse_client_read_loop(_, _, _, _)
clickhouse_client_read_loop(stdout, k, acc, max_bytes) ==
    IF k > Len(stdout) THEN acc
    ELSE LET r == append_line(acc.lines, acc.total_bytes, stdout[k], max_bytes)
         IN IF r.truncated THEN r
            ELSE clickhouse_client_read_loop(stdout, k + 1, r, max_bytes)

NothingRead == [lines |-> <<>>, total_bytes |-> 0, truncated |-> FALSE]

AccountInit ==
    /\ acct_input \in [header : AccountHeaders, rows : SeqsUpTo(AccountRows, MaxAccountRows),
                       max_bytes : AccountCaps]
    /\ acct_result = [e \in Executors |-> NoAccount]
    /\ cfg = IdleConfig
    /\ ExecIdle
    /\ GuardIdle
    /\ TimeoutIdle
    /\ ConfigIdle
    /\ FileIdle
    /\ SelectIdle
    /\ TunnelObjIdle
    /\ PairIdle
    /\ NoiseIdle
    /\ OverrideIdle

AccountOthers == <<guardVars, execVars, timeoutVars, configVars, fileVars, selectVars,
                   tunnelObjVars, pairVars, noiseVars, overrideVars>>

AccountPgPython ==
    /\ ~acct_result["pg_python"].done
    /\ acct_result' = [acct_result EXCEPT !["pg_python"] =
           Accounted(pg_python_sync_query(acct_input.header, acct_input.rows,
                                          acct_input.max_bytes))]
    /\ UNCHANGED <<acct_input, AccountOthers>>

AccountChPython ==
    /\ ~acct_result["ch_python"].done
    /\ acct_result' = [acct_result EXCEPT !["ch_python"] =
           Accounted(ch_python_sync_query(acct_input.header, acct_input.rows,
                                          acct_input.max_bytes))]
    /\ UNCHANGED <<acct_input, AccountOthers>>

AccountPgCli ==
    /\ ~acct_result["pg_cli"].done
    /\ acct_result' = [acct_result EXCEPT !["pg_cli"] =
           Accounted(psql_read_loop(<<acct_input.header>> \o acct_input.rows, 1,
                                    NothingRead, acct_input.max_bytes))]
    /\ UNCHANGED <<acct_input, AccountOthers>>

AccountChCli ==
    /\ ~acct_result["ch_cli"].done
    /\ acct_result' = [acct_result EXCEPT !["ch_cli"] =
           Accounted(clickhouse_client_read_loop(<<acct_input.header>> \o acct_input.rows, 1,
                                                 NothingRead, acct_input.max_bytes))]
    /\ UNCHANGED <<acct_input, AccountOthers>>

AccountNext == AccountPgPython \/ AccountChPython \/ AccountPgCli \/ AccountChCli

SpecAccount == AccountInit /\ [][AccountNext]_vars

AllLines == <<acct_input.header>> \o acct_input.rows

MultiStatement == call.query # <<>> /\ ~ensure_single_statement(Strip(call.query))

\* C31: the PostgreSQL native executor refuses a query of more than one
\* statement with ReadOnlyQueryError and never hands it to the driver: no
\* worker runs it and no connection is opened for it.
C31_NativeRejectsMultiStatement ==
    (cfg.executor = "pg_python" /\ MultiStatement) =>
        /\ worker = "none"
        /\ conn = "none"
        /\ returned.kind # "none" => returned.exc = "ReadOnlyQueryError"

\* C32: in the psql executor the guard runs before anything else: a query
\* it refuses fails the call with ReadOnlyQueryError with no tunnel started
\* and no psql process spawned, and a psql process is spawned only with a
\* query the guard accepted.
C32_GuardRunsFirst ==
    (cfg.executor = "pg_cli" /\ pc # "idle") =>
        /\ ~prepare_user_query(call.query).ok =>
               /\ returned.kind = "error"
               /\ returned.exc = "ReadOnlyQueryError"
               /\ tunnel = "none"
               /\ proc = "none"
               /\ spawn_env = <<>>
        /\ spawn_env # <<>> => prepare_user_query(call.query).ok

\* C34: in both CLI executors, when no line arrives within what is left of
\* the read budget, the client process is killed exactly once before the
\* error reaches the caller, and the call fails with a timeout error, not
\* with an execution error.
C34_ReadTimeoutKillsOnce ==
    (IsCli(cfg.executor) /\ returned.why = "query_timeout") =>
        /\ proc = "killed"
        /\ kills = 1
        /\ returned.exc = "TimeoutError"

(***************************************************************************)
(* Claims about a start of the in-process tunnel that runs out of time.    *)
(***************************************************************************)
\* C35: when start of the in-process tunnel runs past ssh_timeout and
\* raises the timeout while the connecting thread still runs and holds the
\* lock, the tunnel still ends up closed: once that thread is over, the
\* stop flag is set and no transport, forwarder thread or local port is
\* left.
C35_TimedOutStartEndsClosed ==
    (/\ tunnel_obj.impl = "paramiko"
     /\ tunnel_call.op = "start"
     /\ tunnel_call.kind = "raise"
     /\ tunnel_call.exc = "TimeoutError"
     /\ starter = "none") =>
        /\ HoldsNothing
        /\ tunnel_obj.stop_event

(***************************************************************************)
(* Claims about the hard-timeout wrapper.                                  *)
(***************************************************************************)
\* C8: what the operation returns or raises before the deadline reaches the
\* caller unchanged, and HardTimeoutError is raised only when the deadline
\* itself expired.
C8_HardTimeoutOnlyAtDeadline ==
    hard_result.kind # "none" =>
        /\ (hard_result.at = coro.duration /\ coro.duration < timeout_seconds) =>
               (hard_result.exc = coro.exc /\ hard_result.prefix = coro.prefix)
        /\ hard_result.exc = "HardTimeoutError" => hard_result.at = timeout_seconds

====
